---- MODULE Spec2Model ----
(***************************************************************************)
(* Model of the Wayland windowing backend of mpv                           *)
(* (video/out/wayland_common.c): the backend life cycle                    *)
(* (vo_wayland_init / vo_wayland_uninit), the registry roundtrip, the      *)
(* resize / fullscreen negotiation, the drag-and-drop handlers and the     *)
(* poll-based event pump (vo_wayland_check_events).                        *)
(*                                                                         *)
(* Pointers are modelled by booleans (TRUE = non-NULL), file descriptors   *)
(* by their state, protocol objects by an entry of the history variable    *)
(* heap.res.  The compositor, the drag source and the player are the       *)
(* environment: their choices are the \E of the actions.                   *)
(***************************************************************************)
EXTENDS Integers, Sequences, FiniteSets, TLC

VARIABLES
    pc,       \* position of the backend in its life cycle
    vo,       \* struct vo: wayland (non-NULL), dwidth, dheight, event_fd
    display,  \* wl->display
    window,   \* wl->window
    input,    \* wl->input
    cursor,   \* wl->cursor
    srv,      \* the compositor: globals still to be announced, what a
              \* poll of the display socket reports, and the calls made
              \* on its descriptor after close(display_fd)
    heap,     \* history: state of every protocol object, and the order of
              \* the create_* / destroy_* calls
    pipe,     \* the drag-and-drop pipe: read end, bytes in it, write end
    ce,       \* vo_wayland_check_events: position, locals, what it did
    dnd,      \* history of the drag-and-drop offer in progress
    hist,     \* history of the resize requests since the last event check
    ctl,      \* the latest vo_wayland_control call: request and result
    util      \* a call of a function of common/common.c: arguments, result

vars == <<pc, vo, display, window, input, cursor, srv, heap, pipe, ce, dnd,
          hist, ctl, util>>

rt_vars == <<pipe, ce, dnd, hist, ctl, util>>

----------------------------------------------------------------------------
(* Bounds of the model.                                                    *)
MaxWidth == 2      \* largest window width
MaxHeight == 1     \* largest window height
MaxWrites == 3     \* writes of the drag source into one pipe
MaxOffers == 2     \* identifiers of drag-and-drop offers
SizeBits == 13     \* width of size_t, reduced so that buffer_len can wrap
MaxHours == 100    \* largest number of whole hours in a time value
MaxFmtTokens == 2  \* directives and literals in a generated format string
MaxPieces == 2     \* characters and escapes in a generated string literal

(* int const to_read = 2048                                                *)
to_read == 2048

SizeMod == 2 ^ SizeBits

Widths == 1 .. MaxWidth
Heights == 1 .. MaxHeight
ConfigureWidths == 0 .. MaxWidth
ConfigureHeights == 0 .. MaxHeight

----------------------------------------------------------------------------

(* Protocol objects and library objects owned by the backend.              *)
Resources ==
    {"xkb_context", "display", "registry", "compositor", "shm", "shell",
     "subcomp", "scaler", "output", "seat", "devman", "datadev",
     "video_surface", "xdg_surface", "cursor_surface", "cursor_theme",
     "keyboard", "pointer"}

(* An object is created (none/destroyed -> live) and destroyed             *)
(* (live -> destroyed); anything else is a misuse and is remembered.       *)
ResCreate(h, r) ==
    [h EXCEPT !.res[r] = IF @ \in {"none", "destroyed"} THEN "live"
                         ELSE "invalid"]

ResDestroy(h, r) ==
    [h EXCEPT !.res[r] = IF @ = "live" THEN "destroyed" ELSE "invalid",
              !.log = Append(@, r)]

DestroyIf(cond, h, r) == IF cond THEN ResDestroy(h, r) ELSE h

Call(h, name) == [h EXCEPT !.log = Append(@, name)]

----------------------------------------------------------------------------
(* talloc_zero(NULL, struct vo_wayland_state): every field is zero.        *)
display_zero ==
    [display |-> FALSE, registry |-> FALSE, compositor |-> FALSE,
     shm |-> FALSE, shell |-> FALSE, subcomp |-> FALSE, scaler |-> FALSE,
     output |-> FALSE, current_output |-> FALSE, display_fd |-> "none"]

window_zero ==
    [video_surface |-> FALSE, xdg_surface |-> FALSE,
     width |-> 0, height |-> 0, p_width |-> 0, p_height |-> 0,
     sh_width |-> 0, sh_height |-> 0, events |-> {},
     fullscreen |-> FALSE, init |-> FALSE]

input_zero ==
    [xkb_context |-> FALSE, keyboard |-> FALSE, pointer |-> FALSE,
     seat |-> FALSE, devman |-> FALSE, datadev |-> FALSE,
     offer |-> 0, dnd_fd |-> 0]

cursor_zero ==
    [surface |-> FALSE, theme |-> FALSE, pointer |-> FALSE,
     visible |-> FALSE, image |-> "none"]

----------------------------------------------------------------------------
(* destroy_cursor .. destroy_input: every destroy call is guarded by the   *)
(* pointer it destroys.  h is the history, c/w/d/i the records of wl.      *)
destroy_cursor(h, c) ==
    LET h0 == Call(h, "destroy_cursor")
        h1 == DestroyIf(c.theme, h0, "cursor_theme")
    IN  DestroyIf(c.surface, h1, "cursor_surface")

(* destroy_window without the tests of the two pointers.                   *)
destroy_window_unguarded(h, w) ==
    ResDestroy(ResDestroy(Call(h, "destroy_window"), "xdg_surface"),
               "video_surface")

destroy_window(h, w) ==
    LET h0 == Call(h, "destroy_window")
        h1 == DestroyIf(w.xdg_surface, h0, "xdg_surface")
    IN  DestroyIf(w.video_surface, h1, "video_surface")

destroy_display(h, d) ==
    LET h0 == Call(h, "destroy_display")
        h1 == DestroyIf(d.output, h0, "output")
        h2 == DestroyIf(d.scaler, h1, "scaler")
        h3 == DestroyIf(d.shm, h2, "shm")
        h4 == DestroyIf(d.shell, h3, "shell")
        h5 == DestroyIf(d.subcomp, h4, "subcomp")
        h6 == DestroyIf(d.compositor, h5, "compositor")
        h7 == DestroyIf(d.registry, h6, "registry")
    IN  DestroyIf(d.display, h7, "display")

destroy_input(h, i) ==
    LET h0 == Call(h, "destroy_input")
        h1 == DestroyIf(i.keyboard, h0, "keyboard")
        h2 == DestroyIf(i.xkb_context, h1, "xkb_context")
        h3 == DestroyIf(i.pointer, h2, "pointer")
        h4 == DestroyIf(i.datadev, h3, "datadev")
        h5 == DestroyIf(i.devman, h4, "devman")
    IN  DestroyIf(i.seat, h5, "seat")

(* The destroy calls with the display torn down before the window.         *)
uninit_heap_display_first(h, c, w, d, i) ==
    destroy_input(destroy_window(destroy_display(destroy_cursor(h, c), d), w), i)

(* vo_wayland_uninit: cursor, window, display, input, then the state is    *)
(* freed and vo->wayland is reset.                                         *)
uninit_heap(h, c, w, d, i) ==
    destroy_input(destroy_display(destroy_window(destroy_cursor(h, c), w), d), i)

(* vo_wayland_init found a step that failed: it calls vo_wayland_uninit    *)
(* and returns false.                                                      *)
InitFailed(h) == Call(h, "init_failed")

(* vo_wayland_uninit that leaves vo->wayland pointing at the freed state.  *)
vo_wayland_uninit_keep_pointer(h, c, w, d, i) ==
    /\ heap' = uninit_heap(h, c, w, d, i)
    /\ vo' = vo
    /\ cursor' = c
    /\ window' = w
    /\ display' = d
    /\ input' = i
    /\ pc' = "torn_down"

(* The tail of every path through vo_wayland_uninit.  The records keep the *)
(* values they had (the memory is freed and no longer reachable from vo).  *)
vo_wayland_uninit(h, c, w, d, i) ==
    /\ heap' = uninit_heap(h, c, w, d, i)
    /\ vo' = [vo EXCEPT !.wayland = FALSE]
    /\ cursor' = c
    /\ window' = w
    /\ display' = d
    /\ input' = i
    /\ pc' = "torn_down"

(* A NULL pointer handed to libwayland / libwayland-cursor: the process    *)
(* dies inside the library.                                                *)
Crash ==
    /\ pc' = "crashed"
    /\ UNCHANGED <<vo, display, window, input, cursor, srv, heap>>

----------------------------------------------------------------------------
(* vo_wayland_init, first part: allocation of the state and create_input.  *)
(* xkb_ok: xkb_context_new returned a context.                             *)
VoWaylandInit ==
    /\ UNCHANGED rt_vars
    /\ pc = "start"
    /\ \E xkb_ok \in BOOLEAN :
        LET h0 == Call(heap, "create_input")
        IN  IF xkb_ok
            THEN /\ input' = [input_zero EXCEPT !.xkb_context = TRUE,
                                                !.dnd_fd = -1]
                 /\ heap' = ResCreate(h0, "xkb_context")
                 /\ vo' = [vo EXCEPT !.wayland = TRUE]
                 /\ display' = display_zero
                 /\ window' = window_zero
                 /\ cursor' = cursor_zero
                 /\ pc' = "create_display"
            ELSE vo_wayland_uninit(InitFailed(h0), cursor_zero, window_zero,
                                   display_zero, input_zero)
    /\ UNCHANGED srv

(* create_display up to the roundtrip.  connect_ok: the probing test       *)
(* passed and wl_display_connect returned a display; adv: the globals the  *)
(* compositor advertises.                                                  *)
CreateDisplay ==
    /\ UNCHANGED rt_vars
    /\ pc = "create_display"
    /\ \E connect_ok \in BOOLEAN,
          adv \in SUBSET {"wl_compositor", "wl_shm", "wl_output",
                          "wl_data_device_manager", "wl_seat",
                          "wl_subcompositor", "xdg_shell", "wl_scaler"} :
        LET h0 == Call(heap, "create_display")
        IN  IF connect_ok
            THEN /\ display' = [display EXCEPT !.display = TRUE,
                                               !.registry = TRUE]
                 /\ heap' = ResCreate(ResCreate(h0, "display"), "registry")
                 /\ srv' = [srv EXCEPT !.pending = adv]
                 /\ pc' = "roundtrip"
                 /\ UNCHANGED <<vo, window, input, cursor>>
            ELSE /\ vo_wayland_uninit(InitFailed(h0), cursor, window,
                                      display, input)
                 /\ UNCHANGED srv

(* registry_handle_global, dispatched by the roundtrip of create_display   *)
(* once for every advertised global, in the order the compositor chose.    *)
RegistryHandleGlobal ==
    /\ UNCHANGED rt_vars
    /\ pc = "roundtrip"
    /\ \E iface \in srv.pending :
        /\ srv' = [srv EXCEPT !.pending = @ \ {iface}]
        /\ CASE iface = "wl_compositor" ->
                  /\ display' = [display EXCEPT !.compositor = TRUE]
                  /\ heap' = ResCreate(heap, "compositor")
                  /\ UNCHANGED <<input, pc>>
             [] iface = "wl_shm" ->
                  /\ display' = [display EXCEPT !.shm = TRUE]
                  /\ heap' = ResCreate(heap, "shm")
                  /\ UNCHANGED <<input, pc>>
             [] iface = "wl_output" ->
                  /\ display' = [display EXCEPT !.output = TRUE]
                  /\ heap' = ResCreate(heap, "output")
                  /\ UNCHANGED <<input, pc>>
             [] iface = "wl_data_device_manager" ->
                  /\ input' = [input EXCEPT !.devman = TRUE]
                  /\ heap' = ResCreate(heap, "devman")
                  /\ UNCHANGED <<display, pc>>
             [] iface = "wl_seat" ->
                  IF input.devman
                  THEN /\ input' = [input EXCEPT !.seat = TRUE,
                                                 !.datadev = TRUE]
                       /\ heap' = ResCreate(ResCreate(heap, "seat"), "datadev")
                       /\ UNCHANGED <<display, pc>>
                  ELSE \* get_data_device on a NULL manager
                       /\ input' = [input EXCEPT !.seat = TRUE]
                       /\ heap' = ResCreate(heap, "seat")
                       /\ pc' = "crashed"
                       /\ UNCHANGED display
             [] iface = "wl_subcompositor" ->
                  /\ display' = [display EXCEPT !.subcomp = TRUE]
                  /\ heap' = ResCreate(heap, "subcomp")
                  /\ UNCHANGED <<input, pc>>
             [] iface = "xdg_shell" ->
                  /\ display' = [display EXCEPT !.shell = TRUE]
                  /\ heap' = ResCreate(heap, "shell")
                  /\ UNCHANGED <<input, pc>>
             [] iface = "wl_scaler" ->
                  /\ display' = [display EXCEPT !.scaler = TRUE]
                  /\ heap' = ResCreate(heap, "scaler")
                  /\ UNCHANGED <<input, pc>>
    /\ UNCHANGED <<vo, window, cursor>>

(* create_display after the roundtrip: the descriptor of the connection.   *)
CreateDisplayDone ==
    /\ UNCHANGED rt_vars
    /\ pc = "roundtrip"
    /\ srv.pending = {}
    /\ display' = [display EXCEPT !.display_fd = "open"]
    /\ pc' = "create_window"
    /\ UNCHANGED <<vo, window, input, cursor, srv, heap>>

(* create_window.  surf_ok / xdg_ok: the library returned an object.       *)
CreateWindow ==
    /\ UNCHANGED rt_vars
    /\ pc = "create_window"
    /\ \E surf_ok \in BOOLEAN, xdg_ok \in BOOLEAN :
        LET h0 == Call(heap, "create_window")
            h1 == ResCreate(h0, "video_surface")
            w1 == [window EXCEPT !.video_surface = TRUE]
        IN  IF ~display.compositor \/ ~surf_ok
            THEN Crash   \* create_surface / add_listener on NULL
            ELSE IF ~display.shell
            THEN /\ window' = w1
                 /\ heap' = h1
                 /\ pc' = "create_cursor"
                 /\ UNCHANGED <<vo, display, input, cursor, srv>>
            ELSE IF xdg_ok
            THEN /\ window' = [w1 EXCEPT !.xdg_surface = TRUE]
                 /\ heap' = ResCreate(h1, "xdg_surface")
                 /\ pc' = "create_cursor"
                 /\ UNCHANGED <<vo, display, input, cursor, srv>>
            ELSE /\ vo_wayland_uninit(InitFailed(h1), cursor, w1,
                                      display, input)
                 /\ UNCHANGED srv

(* create_cursor and the rest of vo_wayland_init (the second roundtrip     *)
(* and vo->event_fd).                                                      *)
CreateCursor ==
    /\ UNCHANGED rt_vars
    /\ pc = "create_cursor"
    /\ \E surf_ok \in BOOLEAN, theme_ok \in BOOLEAN :
        LET h0 == Call(heap, "create_cursor")
        IN  IF ~display.shm \/ ~surf_ok
            THEN /\ vo_wayland_uninit(InitFailed(h0), cursor, window,
                                      display, input)
                 /\ UNCHANGED srv
            ELSE IF ~theme_ok
            THEN \* wl_cursor_theme_get_cursor on a NULL theme
                 /\ cursor' = [cursor EXCEPT !.surface = TRUE]
                 /\ heap' = ResCreate(h0, "cursor_surface")
                 /\ pc' = "crashed"
                 /\ UNCHANGED <<vo, display, window, input, srv>>
            ELSE /\ cursor' = [cursor EXCEPT !.surface = TRUE,
                                             !.theme = TRUE]
                 /\ heap' = ResCreate(ResCreate(h0, "cursor_surface"),
                                      "cursor_theme")
                 /\ vo' = [vo EXCEPT !.event_fd = TRUE]
                 /\ pc' = "ready"
                 /\ UNCHANGED <<display, window, input, srv>>

(* vo_wayland_uninit called by the player on a running backend.            *)
VoWaylandUninit ==
    /\ UNCHANGED rt_vars
    /\ pc = "ready"
    /\ vo.wayland
    /\ ce.pc = "idle"
    /\ vo_wayland_uninit(heap, cursor, window, display, input)
    \* destroy_display: wl_display_flush and wl_display_disconnect, which
    \* closes the descriptor of the connection
    /\ srv' = IF display.display /\ display.display_fd = "closed"
              THEN [srv EXCEPT !.after_close = @ \cup {"flush", "close"}]
              ELSE srv

------------------------------------------------------------

----------------------------------------------------------------------------
(* The backend is initialised, not torn down, and no call is in progress:  *)
(* the player and the dispatcher of libwayland run on one thread.          *)
Running == pc = "ready" /\ vo.wayland /\ ce.pc = "idle"

(* The requests vo_wayland_control has a case for, and one it has none     *)
(* for.                                                                    *)
Handled ==
    {"VOCTRL_CHECK_EVENTS", "VOCTRL_FULLSCREEN", "VOCTRL_GET_WINDOW_SIZE",
     "VOCTRL_SET_WINDOW_SIZE", "VOCTRL_SET_CURSOR_VISIBILITY",
     "VOCTRL_UPDATE_WINDOW_TITLE", "VOCTRL_GET_DISPLAY_FPS"}

Unhandled == {"VOCTRL_ONTOP", "VOCTRL_GET_PANSCAN"}

(* History of the latest vo_wayland_control call: the request, the value   *)
(* returned, *events before and after the call, and what was written       *)
(* through arg.                                                            *)
ctl_none ==
    [request |-> "none", ret |-> "none", events_in |-> {}, events |-> {},
     out |-> <<>>]

Control(request, ret, out) ==
    [request |-> request, ret |-> ret, events_in |-> {}, events |-> {},
     out |-> out]

(* History of the operations that set the window size since the last       *)
(* event check: the kind of the latest one, the size it asked for, and     *)
(* whether a resize was scheduled by a request of the compositor or the    *)
(* player ("listed"), or only by vo_wayland_config ("config").             *)
(* hist.fs is the history of the VOCTRL_FULLSCREEN requests, kept across   *)
(* the event checks.  asked: what the latest request asked the compositor  *)
(* for; repeat: the request before it had asked for the same; stage: how   *)
(* far a round trip has come ("set": fullscreen was asked for on a window  *)
(* of size w x h, "confirmed": the latest configure event since then had   *)
(* the fullscreen state, "left": the next request came after that).        *)
fs_none ==
    [stage |-> "none", asked |-> "none", w |-> 0, h |-> 0, repeat |-> FALSE]

(* hist.ev is the latest configure event, where it is recorded: its        *)
(* arguments and the serials xdg_surface_ack_configure was called with     *)
(* while it was handled.                                                   *)

(* hist.ptr is the latest pointer event handled: its kind and arguments    *)
(* (dragging is what mp_input_test_dragging answered), the key events and  *)
(* requests the handler submitted, in their order, and owed: a left press  *)
(* has started a window move and no release of the left button has been    *)
(* submitted since (before: the same before this event).  n tells two      *)
(* events of the same kind apart.                                          *)

(* hist.caps: the capabilities the latest seat event announced.            *)
caps_none == {"unannounced"}

(* hist.cur: what the compositor has of the pointer of cursor requests.    *)
(* on: a pointer is on the surface (it entered and has not left).  stale:  *)
(* the object cursor.pointer refers to has been destroyed.  uaf: a         *)
(* set-cursor request has been issued on a destroyed pointer.              *)

hist_none ==
    [last |-> "none", req_w |-> 0, req_h |-> 0, since |-> "none", n |-> 0,
     fs |-> fs_none,
     ev |-> [width |-> 0, height |-> 0, fs |-> FALSE, serial |-> 0,
             acks |-> <<>>],
     ptr |-> [kind |-> "none", button |-> 0, state |-> "none",
              dragging |-> FALSE, out |-> <<>>, before |-> FALSE,
              owed |-> FALSE, n |-> 0],
     caps |-> caps_none,
     cur |-> [on |-> FALSE, stale |-> FALSE, uaf |-> FALSE]]

(* hist after one more request; n counts them up to 2.                     *)
Request(h, kind, width, height) ==
    [last |-> kind, req_w |-> width, req_h |-> height, since |-> "listed",
     n |-> IF h.n < 2 THEN h.n + 1 ELSE h.n, fs |-> h.fs, ev |-> h.ev,
     ptr |-> h.ptr, caps |-> h.caps, cur |-> h.cur]

(* hist.fs after a VOCTRL_FULLSCREEN request on a window w: what           *)
(* window_set_fullscreen asked the compositor for.                         *)
FsRequest(f, w, has_shell) ==
    LET asked == IF ~w.fullscreen THEN "set" ELSE "unset"
    IN  IF ~has_shell THEN f
        ELSE IF f.stage = "confirmed"
        THEN [f EXCEPT !.stage = "left", !.asked = asked,
                       !.repeat = (f.asked = asked)]
        ELSE IF asked = "set"
        THEN [stage |-> "set", asked |-> asked, w |-> w.width,
              h |-> w.height, repeat |-> (f.asked = asked)]
        ELSE [stage |-> "none", asked |-> asked, w |-> 0, h |-> 0,
              repeat |-> (f.asked = asked)]

(* hist.fs after a configure event.  fs: its state list has FULLSCREEN.    *)
FsConfigure(f, fs) ==
    IF f.stage = "set" /\ fs THEN [f EXCEPT !.stage = "confirmed"]
    ELSE IF f.stage = "confirmed" /\ ~fs
    THEN [f EXCEPT !.stage = "none", !.w = 0, !.h = 0]
    ELSE f

(* The destination rectangle vo_get_src_dst_rects computes for a window of *)
(* the given size: the video fitted into the window, so a rectangle that   *)
(* spans the window in one direction.                                      *)
DstRects(width, height) ==
    {[w |-> width, h |-> height]}
        \cup {[w |-> width, h |-> b] : b \in 1 .. height}
        \cup {[w |-> a, h |-> height] : a \in 1 .. width}

(* schedule_resize that leaves a resize that is already pending alone.     *)
schedule_resize_keep_pending(s, width, height, dst) ==
    IF "VO_EVENT_RESIZE" \in s.window.events THEN s
    ELSE [vo |-> [s.vo EXCEPT !.dwidth = width, !.dheight = height],
          window |-> [s.window EXCEPT !.sh_width = dst.w,
                                      !.sh_height = dst.h,
                                      !.events = @ \cup {"VO_EVENT_RESIZE"}]]

(* schedule_resize.  s is the pair of vo and wl->window.                   *)
schedule_resize(s, width, height, dst) ==
    [vo |-> [s.vo EXCEPT !.dwidth = width, !.dheight = height],
     window |-> [s.window EXCEPT !.sh_width = dst.w,
                                 !.sh_height = dst.h,
                                 !.events = @ \cup {"VO_EVENT_RESIZE"}]]

(* window_set_fullscreen.  has_shell is wl->display.shell.                 *)
window_set_fullscreen(s, has_shell, dst) ==
    IF ~has_shell THEN s
    ELSE IF ~s.window.fullscreen
    THEN [s EXCEPT !.window.p_width = s.window.width,
                   !.window.p_height = s.window.height]
    ELSE schedule_resize(s, s.window.p_width, s.window.p_height, dst)

(* xdg_handle_configure without the test of width > 0 && height > 0.      *)
xdg_handle_configure_any_size(s, width, height, fs, dst) ==
    [schedule_resize(s, width, height, dst) EXCEPT !.window.fullscreen = fs]

(* xdg_handle_configure that does not reset the fullscreen state before    *)
(* it reads the state list.                                                *)
xdg_handle_configure_no_reset(s, width, height, fs, dst) ==
    LET s1 == IF width > 0 /\ height > 0
              THEN schedule_resize(s, width, height, dst)
              ELSE s
    IN  [s1 EXCEPT !.window.fullscreen = @ \/ fs]

(* xdg_handle_configure.  fs: the state list contains FULLSCREEN.          *)
xdg_handle_configure(s, width, height, fs, dst) ==
    LET s1 == IF width > 0 /\ height > 0
              THEN schedule_resize(s, width, height, dst)
              ELSE s
    IN  [s1 EXCEPT !.window.fullscreen = fs]

(* The resizing code of the video output driver, run when an event check   *)
(* reported VO_EVENT_RESIZE: it applies the pending size and resets the    *)
(* window events.                                                          *)
resize(w) ==
    [w EXCEPT !.width = w.sh_width, !.height = w.sh_height, !.events = {}]

(* A configure event of the compositor for the xdg surface.  track: the    *)
(* history of the fullscreen round trip is recorded.                       *)
XdgConfigure(track) ==
    /\ UNCHANGED <<ctl, util>>
    /\ Running
    /\ window.xdg_surface
    /\ \E width \in ConfigureWidths, height \in ConfigureHeights,
          fs \in BOOLEAN :
        \E dst \in DstRects(width, height) :
            LET s1 == xdg_handle_configure([vo |-> vo, window |-> window],
                                           width, height, fs, dst)
            IN  /\ vo' = s1.vo
                /\ window' = s1.window
                /\ hist' = [(IF width > 0 /\ height > 0
                             THEN Request(hist, "configure", width, height)
                             ELSE hist)
                              EXCEPT !.fs = IF track
                                            THEN FsConfigure(hist.fs, fs)
                                            ELSE @]
    /\ UNCHANGED <<pc, display, input, cursor, srv, heap, pipe, ce, dnd>>

XdgHandleConfigure == XdgConfigure(FALSE)

(* A configure event, recorded in hist.ev with its serial and its          *)
(* acknowledgements.                                                       *)
XdgHandleConfigureAck ==
    /\ UNCHANGED <<ctl, util>>
    /\ Running
    /\ window.xdg_surface
    /\ \E width \in ConfigureWidths, height \in ConfigureHeights,
          fs \in BOOLEAN, serial \in {1, 2} :
        \E dst \in DstRects(width, height) :
            LET s1 == xdg_handle_configure([vo |-> vo, window |-> window],
                                           width, height, fs, dst)
                ev == [width |-> width, height |-> height, fs |-> fs,
                       serial |-> serial,
                       acks |-> <<serial>>]
            IN  /\ vo' = s1.vo
                /\ window' = s1.window
                /\ hist' = [(IF width > 0 /\ height > 0
                             THEN Request(hist, "configure", width, height)
                             ELSE hist) EXCEPT !.ev = ev]
                /\ hist'.ev # hist.ev
    /\ UNCHANGED <<pc, display, input, cursor, srv, heap, pipe, ce, dnd>>

XdgHandleConfigureFs == XdgConfigure(TRUE)

(* VOCTRL_SET_WINDOW_SIZE without the test of the fullscreen state.        *)
voctrl_set_window_size_in_fullscreen(s, width, height, dst) ==
    schedule_resize(s, width, height, dst)

(* vo_wayland_control, VOCTRL_SET_WINDOW_SIZE.                             *)
voctrl_set_window_size(s, width, height, dst) ==
    IF ~s.window.fullscreen
    THEN schedule_resize(s, width, height, dst)
    ELSE s

VoctrlSetWindowSize ==
    /\ UNCHANGED util
    /\ Running
    /\ \E width \in Widths, height \in Heights :
        \E dst \in DstRects(width, height) :
            LET s1 == voctrl_set_window_size([vo |-> vo, window |-> window],
                                             width, height, dst)
            IN  /\ vo' = s1.vo
                /\ window' = s1.window
                /\ hist' = IF ~window.fullscreen
                           THEN Request(hist, "set_window_size",
                                        width, height)
                           ELSE hist
                /\ ctl' = Control("VOCTRL_SET_WINDOW_SIZE", "VO_TRUE", <<>>)
    /\ UNCHANGED <<pc, display, input, cursor, srv, heap, pipe, ce, dnd>>

(* vo_wayland_control, VOCTRL_FULLSCREEN.  track: the history of the       *)
(* fullscreen round trip is recorded.                                      *)
VoctrlFullscreenRequest(track) ==
    /\ UNCHANGED util
    /\ Running
    /\ \E dst \in DstRects(window.p_width, window.p_height) :
        LET s1 == window_set_fullscreen([vo |-> vo, window |-> window],
                                        display.shell, dst)
        IN  /\ vo' = s1.vo
            /\ window' = s1.window
            /\ hist' = [(IF display.shell /\ window.fullscreen
                         THEN Request(hist, "unfullscreen", 0, 0)
                         ELSE hist)
                          EXCEPT !.fs = IF track
                                        THEN FsRequest(hist.fs, window,
                                                       display.shell)
                                        ELSE @]
            /\ ctl' = Control("VOCTRL_FULLSCREEN", "VO_TRUE", <<>>)
    /\ UNCHANGED <<pc, display, input, cursor, srv, heap, pipe, ce, dnd>>

VoctrlFullscreen == VoctrlFullscreenRequest(FALSE)

VoctrlFullscreenFs == VoctrlFullscreenRequest(TRUE)

(* vo_wayland_config.  hidden: flags & VOFLAG_HIDDEN; opt_fs:              *)
(* vo->opts->fullscreen; gw x gh: the size vo_apply_window_geometry puts   *)
(* into vo->dwidth / vo->dheight.                                          *)
vo_wayland_config(s, has_shell, hidden, opt_fs, gw, gh, dst) ==
    LET s1 == [s EXCEPT !.window.fullscreen = FALSE,
                        !.vo.dwidth = gw, !.vo.dheight = gh,
                        !.window.p_width = gw, !.window.p_height = gh]
        s2 == IF ~s1.window.init
              THEN [s1 EXCEPT !.window.width = gw, !.window.height = gh]
              ELSE s1
        s3 == IF opt_fs
              THEN window_set_fullscreen(s2, has_shell, dst)
              ELSE schedule_resize(s2, gw, gh, dst)
    IN  IF hidden THEN s1 ELSE [s3 EXCEPT !.window.init = TRUE]

VoWaylandConfig ==
    /\ UNCHANGED <<ctl, util>>
    /\ Running
    /\ \E hidden \in BOOLEAN, opt_fs \in BOOLEAN,
          gw \in Widths, gh \in Heights :
        \E dst \in DstRects(gw, gh) :
            LET s1 == vo_wayland_config([vo |-> vo, window |-> window],
                                        display.shell, hidden, opt_fs,
                                        gw, gh, dst)
            IN  /\ vo' = s1.vo
                /\ window' = s1.window
                /\ hist' = [last |-> "config", req_w |-> 0, req_h |-> 0,
                            since |-> IF hist.since = "none"
                                         /\ ~hidden /\ ~opt_fs
                                      THEN "config" ELSE hist.since,
                            n |-> hist.n, fs |-> fs_none, ev |-> hist.ev,
                            ptr |-> hist.ptr, caps |-> hist.caps,
                            cur |-> hist.cur]
    /\ UNCHANGED <<pc, display, input, cursor, srv, heap, pipe, ce, dnd>>

----------------------------------------------------------------------------
(* Seat, pointer and output events the control requests depend on.         *)

(* wl_seat_get_keyboard / wl_seat_get_pointer and the matching destroy,    *)
(* outside vo_wayland_init and vo_wayland_uninit (nothing is logged).      *)
SeatGet(h, r) ==
    [h EXCEPT !.res[r] = IF @ \in {"none", "destroyed"} THEN "live"
                         ELSE "invalid"]

SeatDestroy(h, r) ==
    [h EXCEPT !.res[r] = IF @ = "live" THEN "destroyed" ELSE "invalid"]

(* seat_handle_capabilities that gets an object for every capability      *)
(* announced, whether or not it has one.                                   *)
seat_handle_capabilities_get_again(st, caps) ==
    LET s1 == IF "keyboard" \in caps
              THEN [input |-> [st.input EXCEPT !.keyboard = TRUE],
                    heap |-> SeatGet(st.heap, "keyboard")]
              ELSE IF st.input.keyboard
              THEN [input |-> [st.input EXCEPT !.keyboard = FALSE],
                    heap |-> SeatDestroy(st.heap, "keyboard")]
              ELSE st
    IN  IF "pointer" \in caps
        THEN [input |-> [s1.input EXCEPT !.pointer = TRUE],
              heap |-> SeatGet(s1.heap, "pointer")]
        ELSE IF s1.input.pointer
        THEN [input |-> [s1.input EXCEPT !.pointer = FALSE],
              heap |-> SeatDestroy(s1.heap, "pointer")]
        ELSE s1

(* seat_handle_capabilities.  st is the pair input, heap; caps the set of  *)
(* capabilities announced.                                                 *)
seat_handle_capabilities(st, caps) ==
    LET s1 == IF "keyboard" \in caps /\ ~st.input.keyboard
              THEN [input |-> [st.input EXCEPT !.keyboard = TRUE],
                    heap |-> SeatGet(st.heap, "keyboard")]
              ELSE IF "keyboard" \notin caps /\ st.input.keyboard
              THEN [input |-> [st.input EXCEPT !.keyboard = FALSE],
                    heap |-> SeatDestroy(st.heap, "keyboard")]
              ELSE st
    IN  IF "pointer" \in caps /\ ~s1.input.pointer
        THEN [input |-> [s1.input EXCEPT !.pointer = TRUE],
              heap |-> SeatGet(s1.heap, "pointer")]
        ELSE IF "pointer" \notin caps /\ s1.input.pointer
        THEN [input |-> [s1.input EXCEPT !.pointer = FALSE],
              heap |-> SeatDestroy(s1.heap, "pointer")]
        ELSE s1

SeatHandleCapabilities ==
    /\ UNCHANGED <<ctl, util>>
    /\ Running
    /\ input.seat
    /\ \E caps \in SUBSET {"keyboard", "pointer"} :
        LET s1 == seat_handle_capabilities([input |-> input, heap |-> heap],
                                           caps)
        IN  /\ input' = s1.input
            /\ heap' = s1.heap
            /\ hist' = [hist EXCEPT
                           !.caps = caps,
                           !.cur = IF input.pointer /\ ~s1.input.pointer
                                   THEN [@ EXCEPT !.on = FALSE,
                                                  !.stale = cursor.pointer]
                                   ELSE @]
    /\ UNCHANGED <<pc, vo, display, window, cursor, srv, pipe, ce, dnd>>

(* hide_cursor and show_cursor: without a pointer they do nothing, with    *)
(* one they set the cursor image of the pointer.                           *)
hide_cursor(c) == IF ~c.pointer THEN c ELSE [c EXCEPT !.image = "hidden"]

show_cursor(c) == IF ~c.pointer THEN c ELSE [c EXCEPT !.image = "left_ptr"]

(* The buttons of linux/input.h and the key event mp_input_put_key gets    *)
(* for a button: MP_MOUSE_BTN0 + (button - BTN_LEFT), with                 *)
(* MP_KEY_STATE_DOWN or MP_KEY_STATE_UP.                                   *)
BTN_LEFT == 272

MouseKey(btn, state) ==
    [call |-> "mp_input_put_key", key |-> "MP_MOUSE_BTN0", plus |-> btn,
     state |-> state]

(* pointer_handle_enter without the release of the left button.            *)
pointer_handle_enter_no_release(c) ==
    [cursor |-> show_cursor([c EXCEPT !.pointer = TRUE]), out |-> <<>>]

(* pointer_handle_enter: the pointer is remembered, the left button is     *)
(* released and the cursor shown.                                          *)
pointer_handle_enter(c) ==
    [cursor |-> show_cursor([c EXCEPT !.pointer = TRUE]),
     out |-> <<MouseKey(0, "MP_KEY_STATE_UP")>>]

PointerHandleEnter ==
    /\ UNCHANGED <<ctl, util>>
    /\ Running
    /\ input.pointer
    /\ LET r == pointer_handle_enter(cursor)
       IN  /\ cursor' = r.cursor
           /\ hist' = [hist EXCEPT !.ptr =
                           [kind |-> "enter", button |-> 0, state |-> "none",
                            dragging |-> FALSE, out |-> r.out,
                            before |-> hist.ptr.owed,
                            owed |-> hist.ptr.owed
                                     /\ \A i \in 1 .. Len(r.out) :
                                            r.out[i] #
                                                MouseKey(0, "MP_KEY_STATE_UP"),
                            n |-> 1 - hist.ptr.n],
                       !.cur = [@ EXCEPT !.on = TRUE, !.stale = FALSE]]
    /\ UNCHANGED <<pc, vo, display, window, input, srv, heap, pipe, ce, dnd>>

(* pointer_handle_leave: the key event it submits; no field of wl changes. *)

pointer_handle_leave ==
    <<[call |-> "mp_input_put_key", key |-> "MP_KEY_MOUSE_LEAVE", plus |-> 0,
       state |-> "none"]>>

PointerHandleLeave ==
    /\ UNCHANGED <<ctl, util>>
    /\ Running
    /\ input.pointer
    /\ hist.cur.on
    /\ hist' = [hist EXCEPT !.ptr =
                    [kind |-> "leave", button |-> 0, state |-> "none",
                     dragging |-> FALSE, out |-> pointer_handle_leave,
                     before |-> hist.ptr.owed, owed |-> hist.ptr.owed,
                     n |-> 1 - hist.ptr.n],
                    !.cur = [@ EXCEPT !.on = FALSE]]
    /\ UNCHANGED <<pc, vo, display, window, input, cursor, srv, heap, pipe,
                   ce, dnd>>

(* pointer_handle_motion: the pointer is remembered and the position       *)
(* handed to the input context; the cursor image is not touched.           *)

pointer_handle_motion(c) ==
    [cursor |-> [c EXCEPT !.pointer = TRUE],
     out |-> <<[call |-> "mp_input_set_mouse_pos", key |-> "none",
                plus |-> 0, state |-> "none"]>>]

PointerHandleMotion ==
    /\ UNCHANGED <<ctl, util>>
    /\ Running
    /\ input.pointer
    /\ hist.cur.on
    /\ LET r == pointer_handle_motion(cursor)
       IN  /\ cursor' = r.cursor
           /\ hist' = [hist EXCEPT !.ptr =
                           [kind |-> "motion", button |-> 0,
                            state |-> "none", dragging |-> FALSE,
                            out |-> r.out, before |-> hist.ptr.owed,
                            owed |-> hist.ptr.owed, n |-> 1 - hist.ptr.n],
                           !.cur = [@ EXCEPT !.stale = FALSE]]
    /\ UNCHANGED <<pc, vo, display, window, input, srv, heap, pipe, ce, dnd>>

(* window_move: the move request, if there is a shell.                     *)
window_move(has_shell) ==
    IF has_shell
    THEN <<[call |-> "xdg_surface_move", key |-> "none", plus |-> 0,
            state |-> "none"]>>
    ELSE <<>>

(* pointer_handle_button: what it submits, in order.                       *)
pointer_handle_button(has_shell, button, state, dragging) ==
    <<MouseKey(button - BTN_LEFT,
               IF state = "pressed" THEN "MP_KEY_STATE_DOWN"
               ELSE "MP_KEY_STATE_UP")>>
        \o (IF ~dragging /\ button = BTN_LEFT /\ state = "pressed"
            THEN window_move(has_shell) ELSE <<>>)

PointerHandleButton ==
    /\ UNCHANGED <<ctl, util>>
    /\ Running
    /\ input.pointer
    /\ \E button \in {BTN_LEFT, BTN_LEFT + 1, BTN_LEFT + 2},
          state \in {"pressed", "released"},
          dragging \in BOOLEAN :
        LET out == pointer_handle_button(display.shell, button, state,
                                         dragging)
            start == ~dragging /\ button = BTN_LEFT /\ state = "pressed"
        IN  hist' = [hist EXCEPT !.ptr =
                        [kind |-> "button", button |-> button,
                         state |-> state, dragging |-> dragging, out |-> out,
                         before |-> hist.ptr.owed,
                         owed |-> IF start THEN TRUE
                                  ELSE hist.ptr.owed
                                       /\ \A i \in 1 .. Len(out) :
                                              out[i] #
                                                  MouseKey(0, "MP_KEY_STATE_UP"),
                         n |-> 1 - hist.ptr.n]]
    /\ UNCHANGED <<pc, vo, display, window, input, cursor, srv, heap, pipe,
                   ce, dnd>>

(* surface_handle_enter: current_output is the entry of output_list for    *)
(* the output entered, NULL if the list has none.  known: the output is    *)
(* in the list.                                                            *)
surface_handle_enter(d, known) ==
    [d EXCEPT !.current_output = d.output /\ known]

SurfaceHandleEnter ==
    /\ UNCHANGED <<ctl, util>>
    /\ Running
    /\ window.video_surface
    /\ \E known \in BOOLEAN :
        /\ display' = surface_handle_enter(display, known)
        /\ display' # display
    /\ UNCHANGED <<pc, vo, window, input, cursor, srv, heap, pipe, ce, dnd,
                   hist>>

----------------------------------------------------------------------------
(* vo_wayland_control: the requests that are not modelled above.           *)

(* VOCTRL_GET_WINDOW_SIZE: the size of the window is written to arg.       *)
VoctrlGetWindowSize ==
    /\ UNCHANGED util
    /\ Running
    /\ ctl' = Control("VOCTRL_GET_WINDOW_SIZE", "VO_TRUE",
                      <<window.width, window.height>>)
    /\ ctl' # ctl
    /\ UNCHANGED <<pc, vo, display, window, input, cursor, srv, heap, pipe,
                   ce, dnd, hist>>

(* VOCTRL_SET_CURSOR_VISIBILITY.  arg: the visibility asked for.           *)
voctrl_set_cursor_visibility(c, arg) ==
    LET c1 == IF arg
              THEN IF ~c.visible THEN show_cursor(c) ELSE c
              ELSE IF c.visible THEN hide_cursor(c) ELSE c
    IN  [c1 EXCEPT !.visible = arg]

(* What a set-cursor request on a destroyed wl_pointer, a freed proxy,     *)
(* can do: the process dies, the request has no effect, or it is served as *)
(* if the pointer were alive.                                              *)

VoctrlSetCursorVisibility ==
    /\ UNCHANGED util
    /\ Running
    /\ \E arg \in BOOLEAN :
        LET c1 == voctrl_set_cursor_visibility(cursor, arg)
            uaf == cursor.pointer /\ hist.cur.stale /\ arg # cursor.visible
        IN  /\ ctl' = Control("VOCTRL_SET_CURSOR_VISIBILITY", "VO_TRUE", <<>>)
            /\ IF uaf
               THEN /\ hist' = [hist EXCEPT !.cur.uaf = TRUE]
                    /\ \E outcome \in {"crashed", "ignored", "applied"} :
                         /\ cursor' = IF outcome = "applied" THEN c1
                                      ELSE [cursor EXCEPT !.visible = arg]
                         /\ pc' = IF outcome = "crashed" THEN "crashed"
                                  ELSE pc
               ELSE /\ cursor' = c1
                    /\ UNCHANGED <<pc, hist>>
    /\ UNCHANGED <<vo, display, window, input, srv, heap, pipe, ce, dnd>>

(* VOCTRL_UPDATE_WINDOW_TITLE: window_set_title sends the title to the     *)
(* compositor if there is a shell; no field of wl changes.                 *)
VoctrlUpdateWindowTitle ==
    /\ UNCHANGED util
    /\ Running
    /\ ctl' = Control("VOCTRL_UPDATE_WINDOW_TITLE", "VO_TRUE", <<>>)
    /\ ctl' # ctl
    /\ UNCHANGED <<pc, vo, display, window, input, cursor, srv, heap, pipe,
                   ce, dnd, hist>>

(* VOCTRL_GET_DISPLAY_FPS that answers without looking at current_output.  *)
voctrl_get_display_fps_any_output(d) ==
    Control("VOCTRL_GET_DISPLAY_FPS", "VO_TRUE", <<"fps">>)

(* VOCTRL_GET_DISPLAY_FPS: without a current output the switch is left by  *)
(* break and the function returns VO_NOTIMPL.                              *)
voctrl_get_display_fps(d) ==
    IF ~d.current_output
    THEN Control("VOCTRL_GET_DISPLAY_FPS", "VO_NOTIMPL", <<>>)
    ELSE Control("VOCTRL_GET_DISPLAY_FPS", "VO_TRUE", <<"fps">>)

VoctrlGetDisplayFps ==
    /\ UNCHANGED util
    /\ Running
    /\ ctl' = voctrl_get_display_fps(display)
    /\ ctl' # ctl
    /\ UNCHANGED <<pc, vo, display, window, input, cursor, srv, heap, pipe,
                   ce, dnd, hist>>

(* A request without a case: VO_NOTIMPL.                                   *)
VoctrlUnhandled ==
    /\ UNCHANGED util
    /\ Running
    /\ \E request \in Unhandled :
        /\ ctl' = Control(request, "VO_NOTIMPL", <<>>)
        /\ ctl' # ctl
    /\ UNCHANGED <<pc, vo, display, window, input, cursor, srv, heap, pipe,
                   ce, dnd, hist>>

----------------------------------------------------------------------------
(* Drag and drop.  An offer is a small identifier (0 is NULL); dnd.mimes   *)
(* are the mime types the offer held by wl->input.offer has advertised,    *)
(* dnd.accepted whether wl_data_offer_accept was sent for it.              *)

dnd_none == [mimes |-> {}, entered |-> FALSE, accepted |-> FALSE]

(* pipe.unsupported: the data was requested from an offer that had not     *)
(* advertised text/uri-list.                                               *)
pipe_none ==
    [rd |-> "none", bytes |-> 0, writer |-> FALSE, writes |-> 0,
     unsupported |-> FALSE]

Unsupported(mimes) == "text/uri-list" \notin mimes

(* data_device_handle_data_offer: a new offer replaces the one held.       *)
DataDeviceHandleDataOffer ==
    /\ UNCHANGED <<ctl, util>>
    /\ Running
    /\ input.datadev
    /\ \E id \in 1 .. MaxOffers :
        /\ id # input.offer
        /\ input' = [input EXCEPT !.offer = id]
    /\ dnd' = dnd_none
    /\ UNCHANGED <<pc, vo, display, window, cursor, srv, heap, pipe, ce, hist>>

(* data_offer_handle_offer: one advertised mime type; the handler only     *)
(* logs the types it does not support.  The compositor sends these events  *)
(* before the offer enters the surface.                                    *)
DataOfferHandleOffer ==
    /\ UNCHANGED <<ctl, util>>
    /\ Running
    /\ input.offer # 0
    /\ ~dnd.entered
    /\ \E mime_type \in {"text/uri-list", "text/plain"} :
        /\ mime_type \notin dnd.mimes
        /\ dnd' = [dnd EXCEPT !.mimes = @ \cup {mime_type}]
    /\ UNCHANGED <<pc, vo, display, window, input, cursor, srv, heap, pipe,
                   ce, hist>>

(* data_device_handle_enter: wl_data_offer_accept(id, serial,              *)
(* "text/uri-list"), whatever the offer advertised.  A drag source offers  *)
(* at least one mime type.                                                 *)
data_device_handle_enter(g) ==
    [g EXCEPT !.entered = TRUE, !.accepted = TRUE]

DataDeviceHandleEnter ==
    /\ UNCHANGED <<ctl, util>>
    /\ Running
    /\ input.offer # 0
    /\ dnd.mimes # {}
    /\ ~dnd.entered
    /\ dnd' = data_device_handle_enter(dnd)
    /\ UNCHANGED <<pc, vo, display, window, input, cursor, srv, heap, pipe,
                   ce, hist>>

(* data_device_handle_leave.                                               *)
DataDeviceHandleLeave ==
    /\ UNCHANGED <<ctl, util>>
    /\ Running
    /\ dnd.entered
    /\ input' = [input EXCEPT !.offer = 0]
    /\ dnd' = dnd_none
    /\ UNCHANGED <<pc, vo, display, window, cursor, srv, heap, pipe, ce, hist>>

(* data_device_handle_drop: a pipe is made, its read end kept in dnd_fd,   *)
(* the data of the offer requested as "text/uri-list" into its write end.  *)
(* pipe_ok: pipe() succeeded.  1 stands for the descriptor of the read end.*)
(* st is the triple input, pipe, dnd.                                      *)
data_device_handle_drop(st, pipe_ok) ==
    IF ~pipe_ok THEN st
    ELSE [st EXCEPT
            !.input.dnd_fd = 1,
            !.pipe = [rd |-> "open", bytes |-> 0, writer |-> TRUE,
                      writes |-> 0,
                      unsupported |-> Unsupported(st.dnd.mimes)]]

DataDeviceHandleDrop ==
    /\ UNCHANGED <<ctl, util>>
    /\ Running
    /\ dnd.entered
    /\ input.offer # 0
    /\ \E pipe_ok \in BOOLEAN :
        LET st == data_device_handle_drop(
                      [input |-> input, pipe |-> pipe, dnd |-> dnd], pipe_ok)
        IN  /\ input' = st.input
            /\ pipe' = st.pipe
            /\ dnd' = st.dnd
    /\ UNCHANGED <<pc, vo, display, window, cursor, srv, heap, ce, hist>>

(* The drag source writes into the pipe, and closes its end of it.  It     *)
(* runs in another process: these steps may fall inside an event check.    *)
SourceWrite ==
    /\ UNCHANGED <<ctl, util>>
    /\ pipe.rd = "open"
    /\ pipe.writer
    /\ pipe.writes < MaxWrites
    /\ \E n \in {1, to_read} :
        pipe' = [pipe EXCEPT !.bytes = @ + n, !.writes = @ + 1]
    /\ UNCHANGED <<pc, vo, display, window, input, cursor, srv, heap, ce,
                   dnd, hist>>

SourceClose ==
    /\ UNCHANGED <<ctl, util>>
    /\ pipe.rd = "open"
    /\ pipe.writer
    /\ pipe' = [pipe EXCEPT !.writer = FALSE]
    /\ UNCHANGED <<pc, vo, display, window, input, cursor, srv, heap, ce,
                   dnd, hist>>

(* The state of the display socket changes: data of the compositor         *)
(* arrives (IN), the connection breaks (ERR, HUP).                         *)
SocketEvent ==
    /\ UNCHANGED <<ctl, util>>
    /\ pc = "ready"
    /\ display.display_fd = "open"
    /\ \E bits \in SUBSET {"IN", "ERR", "HUP"} :
        /\ bits # srv.sock
        /\ srv' = [srv EXCEPT !.sock = bits]
    /\ UNCHANGED <<pc, vo, display, window, input, cursor, heap, pipe, ce,
                   dnd, hist>>

----------------------------------------------------------------------------
(* vo_wayland_check_events, called through VOCTRL_CHECK_EVENTS.  ce holds  *)
(* its position, its locals and what the latest check did.                 *)
ce_idle ==
    [pc |-> "idle",
     rev_display |-> {},          \* revents of the poll on the display fd
     closed_display |-> FALSE,    \* this check closed the display fd
     key_close_win |-> FALSE,     \* this check submitted MP_KEY_CLOSE_WIN
     dispatch_closed |-> FALSE,   \* wl_display_dispatch after the close
     rev_dnd |-> {},              \* revents of the poll on the dnd fd
     fd |-> -1,                   \* fd.fd, the descriptor that is read
     buffer_len |-> 0, str_len |-> 0,
     closes |-> 0,                \* successful closes of the dnd fd
     close_invalid |-> FALSE,     \* close called on -1 or a closed fd
     read_closed |-> FALSE,       \* read called on a closed fd
     ovf |-> FALSE,               \* the wrap of buffer_len was detected
     delivered |-> FALSE,         \* mp_event_drop_mime_data was called
     reported |-> FALSE,          \* the check reported VO_EVENT_RESIZE
     prev_reported |-> FALSE,     \* and so did the check before it
     between |-> "none"]          \* hist.since when the check returned

(* close(wl->input.dnd_fd) followed by wl->input.dnd_fd = -1.              *)
(* st is the triple input, pipe, ce.                                       *)
close_dnd_fd(st) ==
    LET valid == st.input.dnd_fd # -1 /\ st.pipe.rd = "open"
    IN  [input |-> [st.input EXCEPT !.dnd_fd = -1],
         pipe |-> IF valid THEN [st.pipe EXCEPT !.rd = "closed"]
                  ELSE st.pipe,
         ce |-> IF valid THEN [st.ce EXCEPT !.closes = @ + 1]
                ELSE [st.ce EXCEPT !.close_invalid = TRUE]]

(* poll_display that closes the descriptor without submitting the key.     *)
poll_display_no_key(st, revents) ==
    LET c0 == [st.ce EXCEPT !.rev_display = revents]
        s1 == IF "ERR" \in revents \/ "HUP" \in revents
              THEN [st EXCEPT !.display.display_fd = "closed",
                              !.ce = [c0 EXCEPT !.closed_display = TRUE]]
              ELSE [st EXCEPT !.ce = c0]
    IN  IF "IN" \in revents
        THEN IF s1.display.display_fd = "closed"
             THEN [s1 EXCEPT !.ce.dispatch_closed = TRUE,
                             !.srv.after_close = @ \cup {"dispatch"}]
             ELSE [s1 EXCEPT !.srv.sock = @ \ {"IN"}]
        ELSE s1

(* The poll of the display descriptor and what follows it: on POLLERR or   *)
(* POLLHUP the descriptor is closed and MP_KEY_CLOSE_WIN submitted, on     *)
(* POLLIN the events are dispatched (POLLOUT only flushes).                *)
(* st is the triple display, srv, ce.                                      *)
poll_display(st, revents) ==
    LET c0 == [st.ce EXCEPT !.rev_display = revents]
        s1 == IF "ERR" \in revents \/ "HUP" \in revents
              THEN [st EXCEPT !.display.display_fd = "closed",
                              !.ce = [c0 EXCEPT !.closed_display = TRUE,
                                                !.key_close_win = TRUE]]
              ELSE [st EXCEPT !.ce = c0]
    IN  IF "IN" \in revents
        THEN IF s1.display.display_fd = "closed"
             THEN [s1 EXCEPT !.ce.dispatch_closed = TRUE,
                             !.srv.after_close = @ \cup {"dispatch"}]
             ELSE [s1 EXCEPT !.srv.sock = @ \ {"IN"}]
        ELSE s1

(* What poll reports for the read end of the pipe.  POLLERR is the         *)
(* kernel's choice.                                                        *)
DndRevents(p, err) ==
    (IF p.bytes > 0 THEN {"IN"} ELSE {})
        \cup (IF ~p.writer THEN {"HUP"} ELSE {})
        \cup (IF err THEN {"ERR"} ELSE {})

(* The value vo_wayland_check_events returns.                              *)
check_events_result(w) == w.events

(* The return of vo_wayland_check_events into vo_wayland_control, which    *)
(* ORs the result into the events of the caller, and into the driver,      *)
(* which resizes if a resize was reported.  st is the triple input, pipe,  *)
(* ce.                                                                     *)
Return(st) ==
    LET reported == "VO_EVENT_RESIZE" \in check_events_result(window)
    IN  /\ input' = st.input
        /\ pipe' = st.pipe
        /\ \E events \in {{}, {"VO_EVENT_EXPOSE"}} :
               ctl' = [request |-> "VOCTRL_CHECK_EVENTS", ret |-> "VO_TRUE",
                       events_in |-> events,
                       events |-> events \cup check_events_result(window),
                       out |-> <<>>]
        /\ window' = IF reported THEN resize(window) ELSE window
        /\ ce' = [st.ce EXCEPT !.pc = "idle",
                               !.reported = reported,
                               !.between = hist.since]
        /\ hist' = [hist_none EXCEPT !.fs = hist.fs, !.ev = hist.ev,
                                     !.ptr = hist.ptr, !.caps = hist.caps,
                                     !.cur = hist.cur]

(* After the read loop: free(buffer), then the POLLHUP branch.             *)
AfterLoop(st) ==
    IF "HUP" \in st.ce.rev_dnd THEN Return(close_dnd_fd(st)) ELSE Return(st)

VoctrlCheckEvents ==
    /\ UNCHANGED util
    /\ Running
    /\ \E err \in BOOLEAN, malloc_ok \in BOOLEAN :
        LET c0 == [ce_idle EXCEPT !.prev_reported = ce.reported]
            \* wl_display_flush and poll at the head of the check
            s0 == IF display.display_fd = "closed"
                  THEN [srv EXCEPT !.after_close = @ \cup {"flush", "poll"}]
                  ELSE srv
            d0 == [display |-> display, srv |-> s0, ce |-> c0]
            d1 == IF display.display_fd = "open" /\ srv.sock # {}
                  THEN poll_display(d0, srv.sock)
                  ELSE d0
            rev == DndRevents(pipe, err)
            st0 == [input |-> input, pipe |-> pipe,
                    ce |-> [d1.ce EXCEPT !.rev_dnd = rev,
                                         !.fd = input.dnd_fd]]
            st1 == IF "ERR" \in rev THEN close_dnd_fd(st0) ELSE st0
        IN  /\ display' = d1.display
            /\ srv' = d1.srv
            /\ IF input.dnd_fd = -1 \/ rev = {}
               THEN /\ ~err
                    /\ malloc_ok
                    /\ Return([input |-> input, pipe |-> pipe, ce |-> d1.ce])
               ELSE IF "IN" \in rev /\ malloc_ok
               THEN /\ input' = st1.input
                    /\ pipe' = st1.pipe
                    /\ ce' = [st1.ce EXCEPT !.pc = "dnd_read",
                                            !.buffer_len = to_read,
                                            !.str_len = 0]
                    /\ UNCHANGED <<window, hist, ctl>>
               ELSE /\ "IN" \in rev \/ malloc_ok
                    /\ AfterLoop(st1)
    /\ UNCHANGED <<pc, vo, cursor, heap, dnd>>

(* The read waits: the descriptor is open, the pipe empty, its write end   *)
(* still open.                                                             *)
ReadBlocks == ce.fd # -1 /\ pipe.rd = "open" /\ pipe.bytes = 0 /\ pipe.writer

(* The body of the read loop without the test for the wrap of buffer_len.  *)
read_loop_body_no_wrap_test(c, has_read, realloc_ok) ==
    LET c2 == [c EXCEPT !.str_len = @ + has_read,
                        !.buffer_len = (@ + to_read) % SizeMod]
    IN  IF ~realloc_ok THEN [ce |-> c2, exit |-> "break"]
        ELSE IF has_read < to_read
        THEN [ce |-> [c2 EXCEPT !.delivered = TRUE], exit |-> "break"]
        ELSE [ce |-> c2, exit |-> "continue"]

(* The body of the read loop after a read of has_read > 0 bytes, up to     *)
(* the test of has_read < to_read.  c is ce; the result is ce with "exit"  *)
(* telling how the loop goes on.                                           *)
read_loop_body(c, has_read, realloc_ok) ==
    IF (c.buffer_len + to_read) % SizeMod < c.buffer_len
    THEN [ce |-> [c EXCEPT !.ovf = TRUE], exit |-> "break"]
    ELSE LET c2 == [c EXCEPT !.str_len = @ + has_read,
                             !.buffer_len = (@ + to_read) % SizeMod]
         IN  IF ~realloc_ok THEN [ce |-> c2, exit |-> "break"]
             ELSE IF has_read < to_read
             THEN [ce |-> [c2 EXCEPT !.delivered = TRUE], exit |-> "break"]
             ELSE [ce |-> c2, exit |-> "continue"]

(* One iteration of the read loop: read(fd.fd, buffer + str_len, to_read)  *)
(* and the body.  realloc_ok: realloc returned memory.                     *)
DndRead ==
    /\ UNCHANGED util
    /\ pc = "ready"
    /\ ce.pc = "dnd_read"
    /\ ~ReadBlocks
    /\ \E realloc_ok \in BOOLEAN :
        LET fd_valid == ce.fd # -1 /\ pipe.rd = "open"
            has_read == IF ~fd_valid THEN -1
                        ELSE IF pipe.bytes < to_read THEN pipe.bytes
                        ELSE to_read
            p1 == IF has_read > 0
                  THEN [pipe EXCEPT !.bytes = @ - has_read]
                  ELSE pipe
            c1 == [ce EXCEPT !.read_closed = @ \/ ~fd_valid]
            b == read_loop_body(c1, has_read, realloc_ok)
        IN  IF has_read <= 0
            THEN /\ realloc_ok
                 /\ AfterLoop([input |-> input, pipe |-> p1, ce |-> c1])
            ELSE IF b.exit = "break"
            THEN AfterLoop([input |-> input, pipe |-> p1, ce |-> b.ce])
            ELSE /\ input' = input
                 /\ pipe' = p1
                 /\ ce' = b.ce
                 /\ UNCHANGED <<window, hist, ctl>>
    /\ UNCHANGED <<pc, vo, display, cursor, srv, heap, dnd>>

(* No function of common/common.c has been called.                        *)
util_none == [fn |-> "none"]

----------------------------------------------------------------------------
(* common/common.c: mp_format_time_fmt and mp_format_time.  A C string is  *)
(* the sequence of its characters; a char * result is a record with the    *)
(* field null (the pointer is NULL) and the string it points to.           *)

Null == [null |-> TRUE, str |-> <<>>]

StrResult(str) == [null |-> FALSE, str |-> str]

(* The time values.  MP_NOPTS_VALUE is the sentinel for an unknown time.   *)
(* Any other double is given by what lines 45-56 take from it: whether it  *)
(* is below zero, the whole seconds of its magnitude (itime) and the       *)
(* milliseconds of the rest (ms).                                          *)
MP_NOPTS_VALUE == [nopts |-> TRUE]

Time(neg, itime, ms) ==
    [nopts |-> FALSE, neg |-> neg, itime |-> itime, ms |-> ms]

Abs(time) == [time EXCEPT !.neg = FALSE]

Times ==
    {MP_NOPTS_VALUE} \cup
    ({Time(neg, h * 3600 + m * 60 + sec, ms) :
         neg \in BOOLEAN, h \in {0, 1, MaxHours - 1, MaxHours},
         m \in {0, 2, 59}, sec \in {0, 5, 59}, ms \in {0, 7}}
         \ {Time(TRUE, 0, 0)})

(* printf of a number: %lld / %d, and %02lld / %03d (padded with zeros to  *)
(* at least width characters).                                             *)
Digit(d) == <<"0", "1", "2", "3", "4", "5", "6", "7", "8", "9">>[d + 1]

RECURSIVE Dec(_)
Dec(n) == IF n < 10 THEN <<Digit(n)>> ELSE Dec(n \div 10) \o <<Digit(n % 10)>>

Pad(n, width) ==
    LET d == Dec(n)
    IN  IF Len(d) >= width THEN d
        ELSE [i \in 1 .. width - Len(d) |-> "0"] \o d

(* The numbers a format can print with the minutes not reduced by the      *)
(* hours.                                                                  *)
TimeFields_total_minutes(time) ==
    LET itime == time.itime
    IN  [sign |-> IF time.neg THEN <<"-">> ELSE <<>>,
         itime |-> itime, tm |-> itime \div 60, h |-> itime \div 3600,
         m |-> itime \div 60, s |-> itime - (itime \div 60) * 60,
         ms |-> time.ms]

(* Lines 45-56: sign, itime, tm, h, m, s, ms.                              *)
TimeFields(time) ==
    LET itime == time.itime
        tm == itime \div 60
        h == itime \div 3600
        s1 == itime - h * 3600
        m == s1 \div 60
        s2 == s1 - m * 60
    IN  [sign |-> IF time.neg THEN <<"-">> ELSE <<>>,
         itime |-> itime, tm |-> tm, h |-> h, m |-> m, s |-> s2,
         ms |-> time.ms]

(* The characters the switch has a case for (lines 62-69), and the         *)
(* directives the comment above the function lists as valid (lines 33-40). *)
SwitchCases == {"h", "H", "m", "M", "s", "S", "T", "%"}

DocumentedDirectives == {"H", "h", "M", "m", "S", "s", "f", "T"}

(* The switch that takes every character after '%' as a directive.         *)
Directive_any_char(c, t) ==
    CASE c = "h" -> StrResult(t.sign \o Dec(t.h))
      [] c = "H" -> StrResult(t.sign \o Pad(t.h, 2))
      [] OTHER -> StrResult(<<c>>)

(* The switch on the character after '%' (lines 61-71): what is appended,  *)
(* or Null for the default case.                                           *)
Directive(c, t) ==
    CASE c = "h" -> StrResult(t.sign \o Dec(t.h))
      [] c = "H" -> StrResult(t.sign \o Pad(t.h, 2))
      [] c = "m" -> StrResult(t.sign \o Dec(t.tm))
      [] c = "M" -> StrResult(Pad(t.m, 2))
      [] c = "s" -> StrResult(t.sign \o Dec(t.itime))
      [] c = "S" -> StrResult(Pad(t.s, 2))
      [] c = "T" -> StrResult(Pad(t.ms, 3))
      [] c = "%" -> StrResult(<<"%">>)
      [] OTHER -> Null

(* The loop over the format (lines 58-77), at position i with the result   *)
(* res built so far.  At the end of the string the character after '%' is  *)
(* the terminating zero, which is the default case.                        *)
RECURSIVE FormatLoop(_, _, _, _)
FormatLoop(fmt, i, res, t) ==
    IF i > Len(fmt) THEN StrResult(res)
    ELSE IF fmt[i] = "%"
    THEN IF i + 1 > Len(fmt) THEN Null
         ELSE LET d == Directive(fmt[i + 1], t)
              IN  IF d.null THEN Null
                  ELSE FormatLoop(fmt, i + 2, res \o d.str, t)
    ELSE FormatLoop(fmt, i + 1, res \o <<fmt[i]>>, t)

(* mp_format_time_fmt without the test for the sentinel: the unknown time  *)
(* is formatted like the time zero.                                        *)
mp_format_time_fmt_no_sentinel(fmt, time) ==
    FormatLoop(fmt, 1, <<>>,
               TimeFields(IF time.nopts THEN Time(FALSE, 0, 0) ELSE time))

mp_format_time_fmt(fmt, time) ==
    IF time = MP_NOPTS_VALUE
    THEN StrResult(<<"u", "n", "k", "n", "o", "w", "n">>)
    ELSE FormatLoop(fmt, 1, <<>>, TimeFields(time))

(* mp_format_time: "%H:%M:%S.%T" with fractions, "%H:%M:%S" without.       *)
FmtHMS == <<"%", "H", ":", "%", "M", ":", "%", "S">>

FmtHMST == FmtHMS \o <<".", "%", "T">>

mp_format_time(time, fractions) ==
    mp_format_time_fmt(IF fractions THEN FmtHMST ELSE FmtHMS, time)

(* The format strings of the callers: every string of up to MaxFmtTokens   *)
(* of the pieces below (the directives of the switch, %f, an unknown       *)
(* directive, a literal and a single '%'), and the two formats of          *)
(* mp_format_time.                                                         *)

RECURSIVE TokenSeqs(_)
TokenSeqs(n) ==
    IF n = 0 THEN {<<>>}
    ELSE LET shorter == TokenSeqs(n - 1)
             tokens ==
                 {<<"%", c>> :
                     c \in {"H", "h", "M", "m", "S", "s", "T", "f", "%", "x"}}
                     \cup {<<":">>, <<"%">>}
         IN  shorter \cup {f \o tok : f \in shorter, tok \in tokens}

(* A caller calls mp_format_time_fmt.                                      *)
MpFormatTimeFmt ==
    /\ util.fn = "mp_format_time_fmt"
    /\ ~util.done
    /\ util' = [util EXCEPT !.done = TRUE,
                            !.res = mp_format_time_fmt(util.fmt, util.time)]
    /\ UNCHANGED <<pc, vo, display, window, input, cursor, srv, heap, pipe,
                   ce, dnd, hist, ctl>>

(* A caller calls mp_format_time.                                          *)
MpFormatTime ==
    /\ util.fn = "mp_format_time"
    /\ ~util.done
    /\ util' = [util EXCEPT !.done = TRUE,
                            !.res = mp_format_time(util.time, util.fractions)]
    /\ UNCHANGED <<pc, vo, display, window, input, cursor, srv, heap, pipe,
                   ce, dnd, hist, ctl>>

----------------------------------------------------------------------------
(* common/common.c: the parser of C-style string literals.  A byte is its  *)
(* value 0..255.  A pointer is a memory block and an offset into it; a     *)
(* bstr is its start pointer and the bytes start[0 .. len-1].              *)

AsciiTable ==
    {<<"\"", 34>>, <<"'", 39>>, <<"\\", 92>>,
     <<"0", 48>>, <<"1", 49>>, <<"2", 50>>, <<"4", 52>>, <<"9", 57>>,
     <<"A", 65>>, <<"C", 67>>, <<"F", 70>>,
     <<"a", 97>>, <<"b", 98>>, <<"e", 101>>, <<"f", 102>>, <<"g", 103>>,
     <<"n", 110>>, <<"p", 112>>, <<"r", 114>>, <<"t", 116>>, <<"u", 117>>,
     <<"x", 120>>}

Ord(c) == (CHOOSE pair \in AsciiTable : pair[1] = c)[2]

Bytes(str) == [i \in 1 .. Len(str) |-> Ord(str[i])]

NullPtr == [mem |-> "NULL", off |-> 0]

TallocPtr == [mem |-> "talloc", off |-> 0]

bstr_null == [start |-> NullPtr, data |-> <<>>]

(* misc/bstr.h: bstr_cut drops the first n bytes, bstr_splice takes the    *)
(* bytes from start to end; both stay inside the string.                   *)
Clip(n, len) == IF n < 0 THEN 0 ELSE IF n > len THEN len ELSE n

bstr_cut(str, n) ==
    LET k == Clip(n, Len(str.data))
    IN  [start |-> [str.start EXCEPT !.off = @ + k],
         data |-> SubSeq(str.data, k + 1, Len(str.data))]

bstr_splice(str, start, end) ==
    LET a == Clip(start, Len(str.data))
        b == IF Clip(end, Len(str.data)) < a THEN a
             ELSE Clip(end, Len(str.data))
    IN  [start |-> [str.start EXCEPT !.off = @ + a],
         data |-> SubSeq(str.data, a + 1, b)]

(* misc/bstr.c: bstr_xappend appends to the talloc'ed buffer of s, which   *)
(* it allocates if s->start is NULL.                                       *)
bstr_xappend(s, append) ==
    [start |-> TallocPtr, data |-> s.data \o append.data]

(* misc/bstr.c: bstrtoll with base 16 reads the leading hexadecimal        *)
(* digits of str; rest is what follows them.                               *)
HexValue(b) ==
    IF b \in 48 .. 57 THEN b - 48
    ELSE IF b \in 97 .. 102 THEN b - 87
    ELSE IF b \in 65 .. 70 THEN b - 55
    ELSE -1

RECURSIVE HexDigits(_, _)
HexDigits(str, value) ==
    IF str.data = <<>> \/ HexValue(str.data[1]) < 0
    THEN [value |-> value, rest |-> str]
    ELSE HexDigits(bstr_cut(str, 1), value * 16 + HexValue(str.data[1]))

bstrtoll(str) == HexDigits(str, 0)

(* PUT_UTF8 of libavutil for the code points four hex digits can give.     *)
PUT_UTF8(codepoint) ==
    IF codepoint < 128 THEN <<codepoint>>
    ELSE IF codepoint < 2048
    THEN <<192 + (codepoint \div 64), 128 + (codepoint % 64)>>
    ELSE <<224 + (codepoint \div 4096), 128 + ((codepoint \div 64) % 64),
           128 + (codepoint % 64)>>

(* mp_append_utf8_bstr.                                                    *)
mp_append_utf8_bstr(buf, codepoint) ==
    bstr_xappend(buf, [start |-> [mem |-> "stack", off |-> 0],
                       data |-> PUT_UTF8(codepoint)])

(* The escape character copied as it is.                                   *)
Replace_same_char(b) ==
    IF b \in {34, 92, 98, 102, 110, 114, 116, 101, 39} THEN b ELSE 0

(* The switch of mp_parse_escape (lines 154-165): the byte that replaces   *)
(* the character after the backslash, 0 if there is none.                  *)
Replace(b) ==
    CASE b = 34 -> 34
      [] b = 92 -> 92
      [] b = 98 -> 8
      [] b = 102 -> 12
      [] b = 110 -> 10
      [] b = 114 -> 13
      [] b = 116 -> 9
      [] b = 101 -> 27
      [] b = 39 -> 39
      [] OTHER -> 0

OneByte(b) == [start |-> [mem |-> "stack", off |-> 0], data |-> <<b>>]

(* mp_parse_escape: code starts after the backslash.  The result: whether  *)
(* it returned true, and *dst and *code afterwards.                        *)
mp_parse_escape(dst, code) ==
    LET fail == [ok |-> FALSE, dst |-> dst, code |-> code]
    IN  IF Len(code.data) < 1 THEN fail
        ELSE IF Replace(code.data[1]) # 0
        THEN [ok |-> TRUE,
              dst |-> bstr_xappend(dst, OneByte(Replace(code.data[1]))),
              code |-> bstr_cut(code, 1)]
        ELSE IF code.data[1] = 120 /\ Len(code.data) >= 3
        THEN LET num == bstrtoll(bstr_splice(code, 1, 3))
             IN  IF Len(num.rest.data) = 0 THEN fail
                 ELSE [ok |-> TRUE,
                       dst |-> bstr_xappend(dst, OneByte(num.value % 256)),
                       code |-> bstr_cut(code, 3)]
        ELSE IF code.data[1] = 117 /\ Len(code.data) >= 5
        THEN LET num == bstrtoll(bstr_splice(code, 1, 5))
             IN  IF Len(num.rest.data) # 0 THEN fail
                 ELSE [ok |-> TRUE,
                       dst |-> mp_append_utf8_bstr(dst, num.value),
                       code |-> bstr_cut(code, 5)]
        ELSE fail

(* The loop of mp_append_escaped_string_noalloc (lines 199-218) at         *)
(* position cur of t; src is *src, which only the success path writes.     *)
RECURSIVE NoallocLoop(_, _, _, _)
NoallocLoop(dst, src, t, cur) ==
    IF cur >= Len(t.data) \/ t.data[cur + 1] = 34
    THEN LET slice == bstr_splice(t, 0, cur)
         IN  [ret |-> TRUE,
              dst |-> IF dst.start = NullPtr THEN slice
                      ELSE bstr_xappend(dst, slice),
              src |-> bstr_cut(t, cur)]
    ELSE IF t.data[cur + 1] = 92
    THEN LET dst1 == bstr_xappend(dst, bstr_splice(t, 0, cur))
             esc == mp_parse_escape(dst1, bstr_cut(t, cur + 1))
         IN  IF ~esc.ok THEN [ret |-> FALSE, dst |-> dst1, src |-> src]
             ELSE NoallocLoop(esc.dst, src, esc.code, 0)
    ELSE NoallocLoop(dst, src, t, cur + 1)

(* mp_append_escaped_string_noalloc that leaves *src behind the backslash  *)
(* of the escape it could not parse.                                       *)
mp_append_escaped_string_noalloc_src_advanced(dst, src) ==
    LET r == NoallocLoop(dst, src, src, 0)
    IN  IF r.ret THEN r
        ELSE [r EXCEPT !.src =
                  bstr_cut(src, Len(r.dst.data) - Len(dst.data) + 1)]

mp_append_escaped_string_noalloc(dst, src) == NoallocLoop(dst, src, src, 0)

(* mp_append_escaped_string: on success a result that is NULL or starts    *)
(* where *src starts is copied into a new buffer.                          *)
mp_append_escaped_string(dst, src) ==
    LET r == mp_append_escaped_string_noalloc(dst, src)
    IN  IF r.ret /\ (r.dst.start = NullPtr \/ r.dst.start = r.src.start)
        THEN [r EXCEPT !.dst = bstr_xappend(bstr_null, r.dst)]
        ELSE r

(* The literals of the callers, as lists of pieces: plain characters and   *)
(* the closing quote, the escapes of one character, \x with two hex        *)
(* digits, \u with four, and what is none of these.                        *)
PlainPieces == {<<"p">>}

QuotePiece == <<"\"">>

SinglePieces ==
    {<<"\\", c>> : c \in {"\"", "\\", "b", "f", "n", "r", "t", "e", "'"}}

HexPieces == {<<"\\", "x", "4", "1">>, <<"\\", "x", "f", "F">>,
              <<"\\", "x", "0", "a">>}

UnicodePieces == {<<"\\", "u", "0", "0", "4", "1">>,
                  <<"\\", "u", "0", "0", "e", "9">>,
                  <<"\\", "u", "2", "0", "A", "C">>}

MalformedPieces ==
    {<<"\\", "g">>, <<"\\">>, <<"\\", "x">>, <<"\\", "x", "4">>,
     <<"\\", "x", "4", "g">>, <<"\\", "x", "g", "g">>, <<"\\", "u">>,
     <<"\\", "u", "4", "1">>, <<"\\", "u", "4", "1", "g", "1">>}

RECURSIVE PieceLists(_)
PieceLists(n) ==
    IF n = 0 THEN {<<>>}
    ELSE LET shorter == PieceLists(n - 1)
             pieces ==
                 PlainPieces \cup {QuotePiece} \cup SinglePieces
                     \cup HexPieces \cup UnicodePieces \cup MalformedPieces
         IN  shorter \cup {Append(l, piece) : l \in shorter, piece \in pieces}

RECURSIVE Flatten(_)
Flatten(l) == IF l = <<>> THEN <<>> ELSE Head(l) \o Flatten(SubSeq(l, 2, Len(l)))

SrcOf(l) == [start |-> [mem |-> "src", off |-> 0], data |-> Bytes(Flatten(l))]

(* A caller calls mp_append_escaped_string.                                *)
MpAppendEscapedString ==
    /\ util.fn = "mp_append_escaped_string"
    /\ ~util.done
    /\ LET r == mp_append_escaped_string(util.dst0, util.src0)
       IN  util' = [util EXCEPT !.done = TRUE, !.ret = r.ret,
                                !.dst = r.dst, !.src = r.src]
    /\ UNCHANGED <<pc, vo, display, window, input, cursor, srv, heap, pipe,
                   ce, dnd, hist, ctl>>

(* A caller calls mp_append_escaped_string_noalloc.                        *)
MpAppendEscapedStringNoalloc ==
    /\ util.fn = "mp_append_escaped_string_noalloc"
    /\ ~util.done
    /\ LET r == mp_append_escaped_string_noalloc(util.dst0, util.src0)
       IN  util' = [util EXCEPT !.done = TRUE, !.ret = r.ret,
                                !.dst = r.dst, !.src = r.src]
    /\ UNCHANGED <<pc, vo, display, window, input, cursor, srv, heap, pipe,
                   ce, dnd, hist, ctl>>

----------------------------------------------------------------------------
(* The state before vo_wayland_init.                                       *)
Unstarted ==
    /\ pc = "start"
    /\ vo = [wayland |-> FALSE, dwidth |-> 0, dheight |-> 0,
             event_fd |-> FALSE]
    /\ display = display_zero
    /\ window = window_zero
    /\ input = input_zero
    /\ cursor = cursor_zero
    /\ srv = [pending |-> {}, sock |-> {}, after_close |-> {}]
    /\ heap = [res |-> [r \in Resources |-> "none"], log |-> <<>>]
    /\ pipe = pipe_none
    /\ ce = ce_idle
    /\ dnd = dnd_none
    /\ hist = hist_none
    /\ ctl = ctl_none

Init == Unstarted /\ util = util_none

(* The life cycle of the backend: initialisation with every failure it     *)
(* handles, window state changes, shutdown.                                *)
Next ==
    \/ VoWaylandInit
    \/ CreateDisplay
    \/ RegistryHandleGlobal
    \/ CreateDisplayDone
    \/ CreateWindow
    \/ CreateCursor
    \/ XdgHandleConfigure
    \/ VoctrlFullscreen
    \/ VoWaylandUninit

Spec == Init /\ [][Next]_vars

(* The state vo_wayland_init leaves when every step succeeded and the      *)
(* compositor advertised every global, the data device manager before the  *)
(* seat.                                                                   *)

InitReady ==
    /\ pc = "ready"
    /\ vo = [wayland |-> TRUE, dwidth |-> 0, dheight |-> 0,
             event_fd |-> TRUE]
    /\ display = [display |-> TRUE, registry |-> TRUE, compositor |-> TRUE,
                  shm |-> TRUE, shell |-> TRUE, subcomp |-> TRUE,
                  scaler |-> TRUE, output |-> TRUE,
                  current_output |-> FALSE, display_fd |-> "open"]
    /\ window = [window_zero EXCEPT !.video_surface = TRUE,
                                    !.xdg_surface = TRUE]
    /\ input = [input_zero EXCEPT !.xkb_context = TRUE, !.seat = TRUE,
                                  !.devman = TRUE, !.datadev = TRUE,
                                  !.dnd_fd = -1]
    /\ cursor = [cursor_zero EXCEPT !.surface = TRUE, !.theme = TRUE]
    /\ srv = [pending |-> {}, sock |-> {}, after_close |-> {}]
    /\ heap = [res |-> [r \in Resources |->
                           IF r \in {"keyboard", "pointer"} THEN "none"
                           ELSE "live"],
               log |-> <<"create_input", "create_display", "create_window",
                         "create_cursor">>]
    /\ pipe = pipe_none
    /\ ce = ce_idle
    /\ dnd = dnd_none
    /\ hist = hist_none
    /\ ctl = ctl_none
    /\ util = util_none

(* The running backend: resize and fullscreen negotiation and the event    *)
(* checks of the player.                                                   *)
NextResize ==
    \/ XdgHandleConfigure
    \/ VoctrlSetWindowSize
    \/ VoctrlFullscreen
    \/ VoWaylandConfig
    \/ VoctrlCheckEvents

SpecResize == InitReady /\ [][NextResize]_vars

(* The running backend: drag and drop and the event checks of the player.  *)
NextDnd ==
    \/ DataDeviceHandleDataOffer
    \/ DataOfferHandleOffer
    \/ DataDeviceHandleEnter
    \/ DataDeviceHandleLeave
    \/ DataDeviceHandleDrop
    \/ SourceWrite
    \/ SourceClose
    \/ VoctrlCheckEvents
    \/ DndRead

SpecDnd == InitReady /\ [][NextDnd]_vars

(* The running backend: the display socket, the event checks and the       *)
(* requests of the player that make them report something.                 *)
NextPump ==
    \/ SocketEvent
    \/ VoctrlSetWindowSize
    \/ VoctrlCheckEvents
    \/ VoWaylandUninit

SpecPump == InitReady /\ [][NextPump]_vars

(* The running backend: the seat and pointer events and the cursor         *)
(* requests of the player.                                                 *)
NextCursor ==
    \/ SeatHandleCapabilities
    \/ PointerHandleEnter
    \/ PointerHandleLeave
    \/ PointerHandleMotion
    \/ VoctrlSetCursorVisibility

SpecCursor == InitReady /\ [][NextCursor]_vars

(* The running backend: the seat and the pointer events, and the end of    *)
(* the backend.                                                            *)
NextPointer ==
    \/ SeatHandleCapabilities
    \/ PointerHandleEnter
    \/ PointerHandleButton
    \/ VoWaylandUninit

SpecPointer == InitReady /\ [][NextPointer]_vars

(* The running backend: every request of vo_wayland_control, and the       *)
(* output event VOCTRL_GET_DISPLAY_FPS depends on.                         *)
NextControl ==
    \/ SurfaceHandleEnter
    \/ VoctrlCheckEvents
    \/ VoctrlFullscreen
    \/ VoctrlGetWindowSize
    \/ VoctrlSetWindowSize
    \/ VoctrlSetCursorVisibility
    \/ VoctrlUpdateWindowTitle
    \/ VoctrlGetDisplayFps
    \/ VoctrlUnhandled

SpecControl == InitReady /\ [][NextControl]_vars

(* The running backend: fullscreen requests of the player, configure       *)
(* events of the compositor and event checks, with the history of the      *)
(* fullscreen round trip.                                                  *)
NextFullscreen ==
    \/ XdgHandleConfigureFs
    \/ VoctrlFullscreenFs
    \/ VoctrlCheckEvents

SpecFullscreen == InitReady /\ [][NextFullscreen]_vars

(* The running backend: configure events of the compositor with their      *)
(* acknowledgement, fullscreen requests and event checks.                  *)
NextConfigure ==
    \/ XdgHandleConfigureAck
    \/ VoctrlFullscreen
    \/ VoctrlCheckEvents

SpecConfigure == InitReady /\ [][NextConfigure]_vars

(* The time formatting functions of common/common.c, called with every     *)
(* format string of Formats and every time of Times.                       *)
InitFormat ==
    /\ Unstarted
    /\ util \in
          {[fn |-> "mp_format_time_fmt", fmt |-> fmt, time |-> time,
            fractions |-> FALSE, done |-> FALSE, res |-> Null] :
              fmt \in TokenSeqs(MaxFmtTokens) \cup {FmtHMS, FmtHMST},
              time \in Times}
          \cup
          {[fn |-> "mp_format_time", fmt |-> <<>>, time |-> time,
            fractions |-> fractions, done |-> FALSE, res |-> Null] :
              time \in Times, fractions \in BOOLEAN}

NextFormat ==
    \/ MpFormatTimeFmt
    \/ MpFormatTime

SpecFormat == InitFormat /\ [][NextFormat]_vars

(* The string literal parser of common/common.c, called with every literal *)
(* of up to MaxPieces pieces and every *dst of Dsts.                       *)
InitEscape ==
    /\ Unstarted
    /\ util \in
          {[fn |-> fn, pieces |-> l, src0 |-> SrcOf(l), dst0 |-> dst,
            done |-> FALSE, ret |-> FALSE, dst |-> dst, src |-> SrcOf(l)] :
              fn \in {"mp_append_escaped_string",
                      "mp_append_escaped_string_noalloc"},
              l \in PieceLists(MaxPieces),
              dst \in {bstr_null,
                       [start |-> TallocPtr, data |-> Bytes(<<"p", "4">>)]}}

NextEscape ==
    \/ MpAppendEscapedString
    \/ MpAppendEscapedStringNoalloc

SpecEscape == InitEscape /\ [][NextEscape]_vars

----------------------------------------------------------------------------
(* C1.  Any number of resize requests that arrive between two event        *)
(* checks (configure events with a positive size, VOCTRL_SET_WINDOW_SIZE   *)
(* while not fullscreen) leave one pending resize: window.events is the    *)
(* single bit VO_EVENT_RESIZE and vo->dwidth x vo->dheight is the size of  *)
(* the most recent request.                                                *)
C1_ResizeReconciled ==
    hist.last \in {"configure", "set_window_size"} =>
        /\ window.events = {"VO_EVENT_RESIZE"}
        /\ vo.dwidth = hist.req_w
        /\ vo.dheight = hist.req_h

(* Two requests since the last check, the latest one a configure event     *)
(* for the largest width, after a check that had reported a resize.        *)
C1_Witness ==
    /\ hist.n = 2
    /\ hist.last = "configure"
    /\ hist.req_w = MaxWidth
    /\ vo.dwidth = MaxWidth
    /\ ce.reported
    /\ window.events = {"VO_EVENT_RESIZE"}

----------------------------------------------------------------------------
(* The stage of the backend, read off its state.                           *)
Phase ==
    IF pc = "torn_down" THEN "torn_down"
    ELSE IF ~(display.display /\ display.registry) THEN "disconnected"
    ELSE IF ~window.video_surface THEN "connected"
    ELSE IF window.fullscreen THEN "fullscreen"
    ELSE "windowed"

(* C3.  The backend moves only forward along disconnected -> connected ->  *)
(* windowed -> (fullscreen <-> windowed) -> torn down, the tear-down       *)
(* being entered from any stage (a failed initialisation unwinds from the  *)
(* stage it reached): the window surface is created only on a connected    *)
(* display whose registry roundtrip is over, the fullscreen flag changes   *)
(* only while the window exists, vo_wayland_uninit leaves vo->wayland      *)
(* NULL, and nothing changes after it.                                     *)
C3_LifeCycle ==
    [][ /\ (Phase' # Phase =>
                <<Phase, Phase'>> \in
                    {<<"disconnected", "connected">>,
                     <<"connected", "windowed">>,
                     <<"windowed", "fullscreen">>,
                     <<"fullscreen", "windowed">>}
                        \cup {<<p, "torn_down">> :
                                 p \in {"disconnected", "connected",
                                        "windowed", "fullscreen"}})
        /\ (window'.video_surface /\ ~window.video_surface =>
               display.display /\ display.registry /\ srv.pending = {})
        /\ (window'.fullscreen # window.fullscreen =>
               pc = "ready" /\ window.video_surface /\ window'.video_surface)
        /\ (pc' = "torn_down" => ~vo'.wayland)
        /\ (pc = "torn_down" => UNCHANGED vars) ]_vars

(* A backend that was initialised, went fullscreen and was shut down.      *)
C3_Witness ==
    /\ pc = "torn_down"
    /\ ~vo.wayland
    /\ vo.event_fd
    /\ window.video_surface
    /\ window.fullscreen

InitOrder ==
    <<"create_input", "create_display", "create_window", "create_cursor">>

UninitOrder ==
    <<"destroy_cursor", "destroy_window", "destroy_display", "destroy_input">>

IsCreateCall(e) == \E k \in 1 .. 4 : InitOrder[k] = e

FailedAt == {k \in 1 .. Len(heap.log) : heap.log[k] = "init_failed"}

(* C4.  When create_input, create_display, create_window or create_cursor  *)
(* fails, vo_wayland_init returns false: the steps run are the steps up to *)
(* the failing one, in order, and none runs after it; every object made    *)
(* is destroyed once and no object that was never made is destroyed; and   *)
(* vo->wayland is NULL.                                                    *)
C4_InitFailureUnwinds ==
    \A k \in FailedAt :
        /\ pc = "torn_down"
        /\ ~vo.wayland
        /\ ~vo.event_fd
        /\ k > 1
        /\ SubSeq(heap.log, 1, k - 1) = SubSeq(InitOrder, 1, k - 1)
        /\ \A j \in k + 1 .. Len(heap.log) : ~IsCreateCall(heap.log[j])
        /\ \A r \in Resources : heap.res[r] \in {"none", "destroyed"}

(* create_cursor failed after the surfaces of the window were made.        *)
C4_Witness ==
    /\ FailedAt = {5}
    /\ heap.res["xdg_surface"] = "destroyed"
    /\ heap.res["video_surface"] = "destroyed"
    /\ heap.res["display"] = "destroyed"
    /\ heap.res["xkb_context"] = "destroyed"
    /\ heap.res["cursor_theme"] = "none"

(* The position of a call in the log (0 if it is not there).               *)
PosOf(e) ==
    IF \E k \in 1 .. Len(heap.log) : heap.log[k] = e
    THEN CHOOSE k \in 1 .. Len(heap.log) : heap.log[k] = e
    ELSE 0

(* C5.  Shutdown is in reverse order of creation: the components are made  *)
(* in the order input, display, window, cursor, vo_wayland_uninit destroys *)
(* cursor, window, display, input, and of two components that were made    *)
(* the one made later is destroyed first.                                  *)
C5_ReverseOrder ==
    pc = "torn_down" =>
        LET creates == SelectSeq(heap.log, IsCreateCall)
            destroys == SelectSeq(heap.log,
                                  LAMBDA e : \E k \in 1 .. 4 :
                                                 UninitOrder[k] = e)
        IN  /\ creates = SubSeq(InitOrder, 1, Len(creates))
            /\ destroys = UninitOrder
            /\ \A a \in 1 .. Len(creates), b \in 1 .. Len(creates) :
                   a < b =>
                       /\ PosOf(InitOrder[b]) < PosOf(UninitOrder[5 - b])
                       /\ PosOf(UninitOrder[5 - b]) < PosOf(UninitOrder[5 - a])

(* A backend that was fully initialised and then shut down.                *)
C5_Witness ==
    /\ pc = "torn_down"
    /\ vo.event_fd
    /\ Len(SelectSeq(heap.log, IsCreateCall)) = 4
    /\ heap.res["cursor_theme"] = "destroyed"
    /\ heap.res["xkb_context"] = "destroyed"

----------------------------------------------------------------------------
(* C6.  An event check that finds POLLERR or POLLHUP on the display socket *)
(* closes the socket descriptor and submits MP_KEY_CLOSE_WIN in that same  *)
(* check.                                                                  *)
C6_DisplayErrorClosesWindow ==
    ("ERR" \in ce.rev_display \/ "HUP" \in ce.rev_display) =>
        /\ ce.closed_display
        /\ ce.key_close_win
        /\ display.display_fd = "closed"

(* A check that found POLLHUP alone on the open display socket.            *)
C6_Witness ==
    /\ ce.pc = "idle"
    /\ ce.rev_display = {"HUP"}
    /\ ce.key_close_win
    /\ display.display_fd = "closed"

(* C7 as stated.  An event check that finds POLLERR or POLLHUP on the      *)
(* drag-and-drop pipe closes the read end: for every combination of        *)
(* POLLIN, POLLERR and POLLHUP the descriptor is closed exactly once,      *)
(* close is never called on an invalid descriptor, and the descriptor is   *)
(* not read after it was closed.                                           *)
C7_DndCloseOnce ==
    /\ (ce.pc = "idle" /\ ("ERR" \in ce.rev_dnd \/ "HUP" \in ce.rev_dnd)) =>
           ce.closes = 1
    /\ ~ce.close_invalid
    /\ ~ce.read_closed

(* C8.  In the read loop every read of up to to_read bytes stays inside    *)
(* the buffer (str_len + to_read <= buffer_len before each read), the      *)
(* terminating zero byte is written at an index below buffer_len, and a    *)
(* growth of buffer_len that would wrap is detected and ends the loop, so  *)
(* that buffer_len never wraps.                                            *)
C8_DndBufferBounds ==
    /\ ce.pc = "dnd_read" => ce.str_len + to_read <= ce.buffer_len
    /\ ce.delivered => ce.str_len < ce.buffer_len
    /\ ce.ovf => ce.pc = "idle"
    /\ ce.str_len <= ce.buffer_len

(* A read loop that was ended by the detection of the wrap, after reads    *)
(* that filled the buffer up to its last to_read bytes.                    *)
C8_Witness ==
    /\ ce.ovf
    /\ ce.pc = "idle"
    /\ ce.buffer_len + to_read = SizeMod
    /\ ce.str_len + to_read = ce.buffer_len

(* C9 as stated.  An offer that has not advertised text/uri-list is        *)
(* neither accepted on enter nor asked for its data on drop, and no drop   *)
(* event is submitted for its data.                                        *)
C9_UnsupportedMimeRejected ==
    /\ dnd.accepted => ~Unsupported(dnd.mimes)
    /\ pipe.rd # "none" => ~pipe.unsupported
    /\ ~(ce.delivered /\ pipe.unsupported)

(* C10 as stated.  vo_wayland_check_events never waits for more data.      *)
C10_NonBlocking == ~(ce.pc = "dnd_read" /\ ReadBlocks)

----------------------------------------------------------------------------
----------------------------------------------------------------------------
(* C12 as stated.  Fullscreen toggling round-trips the window size: when   *)
(* VOCTRL_FULLSCREEN was issued on a window of size W x H, a configure     *)
(* event confirmed fullscreen and VOCTRL_FULLSCREEN is issued again (no    *)
(* vo_wayland_config in between), the second request asks to leave         *)
(* fullscreen and schedules a resize to W x H; and each VOCTRL_FULLSCREEN  *)
(* request asks for the opposite of what the request before it asked for.  *)
C12_FullscreenRoundTrip ==
    /\ hist.fs.stage = "left" => hist.fs.asked = "unset"
    /\ (hist.fs.stage = "left" /\ hist.last = "unfullscreen") =>
           /\ vo.dwidth = hist.fs.w
           /\ vo.dheight = hist.fs.h
           /\ "VO_EVENT_RESIZE" \in window.events
    /\ ~hist.fs.repeat

----------------------------------------------------------------------------
(* C13.  mp_format_time_fmt returns the fixed string "unknown" whenever    *)
(* the time value is the sentinel MP_NOPTS_VALUE, for every format string  *)
(* (also through mp_format_time).                                          *)
C13_UnknownTime ==
    (util.fn \in {"mp_format_time_fmt", "mp_format_time"} /\ util.done
        /\ util.time = MP_NOPTS_VALUE) =>
        util.res = StrResult(<<"u", "n", "k", "n", "o", "w", "n">>)

(* The unknown time was formatted with a format whose directive the        *)
(* switch does not know.                                                   *)
C13_Witness ==
    /\ util.fn = "mp_format_time_fmt"
    /\ util.done
    /\ util.time = MP_NOPTS_VALUE
    /\ util.fmt = <<"%", "x">>
    /\ util.res.str = <<"u", "n", "k", "n", "o", "w", "n">>

----------------------------------------------------------------------------
(* C14.  For every non-negative whole number of seconds t, the format      *)
(* "%H:%M:%S" yields hh:mm:ss with hh = t / 3600 padded with zeros to at   *)
(* least two digits, mm = (t mod 3600) / 60 and ss = t mod 60 padded to    *)
(* two digits and within 00..59, so that hh*3600 + mm*60 + ss = t (3725    *)
(* gives "01:02:05"); %m yields t / 60 and %s yields t.                    *)
C14_HoursMinutesSeconds ==
    (util.fn = "mp_format_time_fmt" /\ util.done /\ ~util.time.nopts
        /\ ~util.time.neg /\ util.time.ms = 0) =>
        LET t == util.time.itime
            hh == t \div 3600
            mm == (t % 3600) \div 60
            ss == t % 60
            r == util.res.str
            n == Len(r)
            Value(c) == CHOOSE d \in 0 .. 9 : Digit(d) = c
            RECURSIVE Num(_)
            Num(str) ==
                IF str = <<>> THEN 0
                ELSE Num(SubSeq(str, 1, Len(str) - 1)) * 10
                         + Value(str[Len(str)])
        IN  /\ util.fmt = FmtHMS =>
                /\ ~util.res.null
                /\ r = Pad(hh, 2) \o <<":">> \o Pad(mm, 2) \o <<":">>
                           \o Pad(ss, 2)
                /\ n >= 8
                /\ r[n - 2] = ":" /\ r[n - 5] = ":"
                /\ Num(SubSeq(r, n - 4, n - 3)) \in 0 .. 59
                /\ Num(SubSeq(r, n - 1, n)) \in 0 .. 59
                /\ Num(SubSeq(r, 1, n - 6)) * 3600
                       + Num(SubSeq(r, n - 4, n - 3)) * 60
                       + Num(SubSeq(r, n - 1, n)) = t
                /\ t = 3725 => r = <<"0", "1", ":", "0", "2", ":", "0", "5">>
            /\ util.fmt = <<"%", "m">> =>
                   ~util.res.null /\ Num(r) = t \div 60 /\ r = Dec(t \div 60)
            /\ util.fmt = <<"%", "s">> =>
                   ~util.res.null /\ Num(r) = t /\ r = Dec(t)

(* 3725 seconds were formatted as hours, minutes and seconds.              *)
C14_Witness ==
    /\ util.fn = "mp_format_time_fmt"
    /\ util.done
    /\ util.fmt = FmtHMS
    /\ util.time = Time(FALSE, 3725, 0)
    /\ util.res.str = <<"0", "1", ":", "0", "2", ":", "0", "5">>

----------------------------------------------------------------------------
(* C15 as stated.  Negative times carry a sign prefix: for every negative  *)
(* time other than the sentinel and every accepted format string, the      *)
(* result is "-" followed by the result of formatting the absolute value   *)
(* of the time with the same format string.                                *)
C15_SignPrefix ==
    (util.fn \in {"mp_format_time_fmt", "mp_format_time"} /\ util.done
        /\ ~util.time.nopts /\ util.time.neg /\ ~util.res.null) =>
        util.res.str = <<"-">> \o
            (IF util.fn = "mp_format_time"
             THEN mp_format_time(Abs(util.time), util.fractions).str
             ELSE mp_format_time_fmt(util.fmt, Abs(util.time)).str)

----------------------------------------------------------------------------
----------------------------------------------------------------------------
(* C17 as stated.  Every directive listed as valid in the documentation    *)
(* of mp_format_time_fmt (%H, %h, %M, %m, %S, %s, %f and %T) is accepted:  *)
(* a format made only of these directives and literal characters yields a  *)
(* non-NULL result for every time value.                                   *)
C17_DocumentedDirectivesAccepted ==
    (util.fn = "mp_format_time_fmt" /\ util.done) =>
        LET fmt == util.fmt
            RECURSIVE OnlyDocumented(_)
            OnlyDocumented(i) ==
                IF i > Len(fmt) THEN TRUE
                ELSE IF fmt[i] # "%" THEN OnlyDocumented(i + 1)
                ELSE /\ i < Len(fmt)
                     /\ fmt[i + 1] \in DocumentedDirectives
                     /\ OnlyDocumented(i + 2)
        IN  OnlyDocumented(1) => ~util.res.null

----------------------------------------------------------------------------
(* C18 as stated.  A two-digit hex escape decodes to its byte: for every   *)
(* pair of hex digits NN, mp_append_escaped_string applied to a literal    *)
(* containing backslash-x-NN succeeds, appends exactly the single byte     *)
(* with value NN to *dst at that position, and continues parsing right     *)
(* after the two digits.                                                   *)
C18_HexEscape ==
    (util.fn = "mp_append_escaped_string" /\ util.done
        /\ (\A i \in 1 .. Len(util.pieces) :
                util.pieces[i] \in PlainPieces \cup HexPieces)
        /\ (\E k \in 1 .. Len(util.pieces) : util.pieces[k] \in HexPieces)) =>
        LET digits == <<"0", "1", "2", "3", "4", "5", "6", "7", "8", "9",
                        "a", "b", "c", "d", "e", "f">>
            upper == <<"0", "1", "2", "3", "4", "5", "6", "7", "8", "9",
                       "A", "B", "C", "D", "E", "F">>
            Hex(c) == CHOOSE v \in 0 .. 15 :
                          c = digits[v + 1] \/ c = upper[v + 1]
            Byte(piece) ==
                IF piece \in HexPieces
                THEN <<Hex(piece[3]) * 16 + Hex(piece[4])>>
                ELSE <<112>>
            RECURSIVE Expected(_)
            Expected(l) ==
                IF l = <<>> THEN <<>>
                ELSE Byte(Head(l)) \o Expected(SubSeq(l, 2, Len(l)))
        IN  /\ util.ret
            /\ util.dst.data = util.dst0.data \o Expected(util.pieces)
            /\ util.src.data = <<>>

----------------------------------------------------------------------------
(* C19.  Backslash followed by one of " \ b f n r t e ' appends exactly    *)
(* the corresponding single byte (quote, backslash, BS, FF, LF, CR, TAB,   *)
(* ESC 0x1b, apostrophe) and consumes one character; backslash-u followed  *)
(* by four hex digits appends the UTF-8 encoding of that code point and    *)
(* consumes five characters; all bytes outside escapes are copied to *dst  *)
(* unchanged and in order, up to the closing quote or the end.             *)
C19_SingleAndUnicodeEscapes ==
    (util.fn \in {"mp_append_escaped_string",
                  "mp_append_escaped_string_noalloc"} /\ util.done
        /\ (\A i \in 1 .. Len(util.pieces) :
                util.pieces[i] \in PlainPieces \cup {QuotePiece}
                    \cup SinglePieces \cup UnicodePieces)) =>
        LET digits == <<"0", "1", "2", "3", "4", "5", "6", "7", "8", "9",
                        "a", "b", "c", "d", "e", "f">>
            upper == <<"0", "1", "2", "3", "4", "5", "6", "7", "8", "9",
                       "A", "B", "C", "D", "E", "F">>
            Hex(c) == CHOOSE v \in 0 .. 15 :
                          c = digits[v + 1] \/ c = upper[v + 1]
            Single(c) ==
                CASE c = "\"" -> 34 [] c = "\\" -> 92 [] c = "b" -> 8
                  [] c = "f" -> 12 [] c = "n" -> 10 [] c = "r" -> 13
                  [] c = "t" -> 9 [] c = "e" -> 27 [] c = "'" -> 39
            CodePoint(piece) ==
                ((Hex(piece[3]) * 16 + Hex(piece[4])) * 16 + Hex(piece[5]))
                    * 16 + Hex(piece[6])
            IsUtf8(b, cp) ==
                \/ cp < 128 /\ b = <<cp>>
                \/ /\ cp \in 128 .. 2047
                   /\ Len(b) = 2
                   /\ b[1] \in 192 .. 223 /\ b[2] \in 128 .. 191
                   /\ (b[1] - 192) * 64 + (b[2] - 128) = cp
                \/ /\ cp \in 2048 .. 65535
                   /\ Len(b) = 3
                   /\ b[1] \in 224 .. 239
                   /\ b[2] \in 128 .. 191 /\ b[3] \in 128 .. 191
                   /\ ((b[1] - 224) * 64 + (b[2] - 128)) * 64
                          + (b[3] - 128) = cp
            Width(piece) ==
                IF piece \notin UnicodePieces \/ CodePoint(piece) < 128 THEN 1
                ELSE IF CodePoint(piece) < 2048 THEN 2 ELSE 3
            Decodes(piece, b) ==
                IF piece \in SinglePieces THEN b = <<Single(piece[2])>>
                ELSE IF piece \in UnicodePieces
                THEN IsUtf8(b, CodePoint(piece))
                ELSE b = <<Ord(piece[1])>>
            quotes == {q \in 1 .. Len(util.pieces) :
                           util.pieces[q] = QuotePiece}
            end == IF quotes = {} THEN Len(util.pieces) + 1
                   ELSE CHOOSE q \in quotes : \A j \in quotes : q <= j
            RECURSIVE Matches(_, _)
            Matches(l, b) ==
                IF l = <<>> THEN b = <<>>
                ELSE /\ Len(b) >= Width(Head(l))
                     /\ Decodes(Head(l), SubSeq(b, 1, Width(Head(l))))
                     /\ Matches(SubSeq(l, 2, Len(l)),
                                SubSeq(b, Width(Head(l)) + 1, Len(b)))
            n0 == Len(util.dst0.data)
        IN  /\ util.ret
            /\ Len(util.dst.data) >= n0
            /\ SubSeq(util.dst.data, 1, n0) = util.dst0.data
            /\ Matches(SubSeq(util.pieces, 1, end - 1),
                       SubSeq(util.dst.data, n0 + 1, Len(util.dst.data)))
            /\ util.src.data =
                   Bytes(Flatten(SubSeq(util.pieces, end, Len(util.pieces))))

(* An escape of one character and a \u escape of a code point of three     *)
(* UTF-8 bytes were appended to text *dst held already.                    *)
C19_Witness ==
    /\ util.fn = "mp_append_escaped_string"
    /\ util.done
    /\ util.pieces = <<<<"\\", "e">>, <<"\\", "u", "2", "0", "A", "C">>>>
    /\ util.ret
    /\ util.dst.data = <<112, 52, 27, 226, 130, 172>>
    /\ util.src.data = <<>>

----------------------------------------------------------------------------
(* C20 as stated.  On a malformed escape (unknown escape character,        *)
(* backslash at the end of the input, or a \x or \u escape with missing or *)
(* non-hex digits) mp_append_escaped_string returns false, *src is left    *)
(* unchanged, and *dst afterwards is its prior content followed only by    *)
(* the decoded text that precedes the first error.                         *)
C20_MalformedEscape ==
    (util.fn = "mp_append_escaped_string" /\ util.done
        /\ util.pieces # <<>>
        /\ util.pieces[Len(util.pieces)] \in MalformedPieces
        /\ (\A i \in 1 .. Len(util.pieces) - 1 :
                util.pieces[i] \in
                    PlainPieces \cup {<<"\\", "n">>, <<"\\", "t">>})) =>
        LET Byte(piece) ==
                CASE piece = <<"\\", "n">> -> <<10>>
                  [] piece = <<"\\", "t">> -> <<9>>
                  [] OTHER -> <<112>>
            RECURSIVE Expected(_)
            Expected(l) ==
                IF l = <<>> THEN <<>>
                ELSE Byte(Head(l)) \o Expected(SubSeq(l, 2, Len(l)))
        IN  /\ ~util.ret
            /\ util.src = util.src0
            /\ util.dst.data =
                   util.dst0.data
                       \o Expected(SubSeq(util.pieces, 1, Len(util.pieces) - 1))

----------------------------------------------------------------------------
(* C21 as stated.  Whenever mp_append_escaped_string or                    *)
(* mp_append_escaped_string_noalloc returns false, both *dst and *src are  *)
(* exactly as they were before the call.                                   *)
C21_Original ==
    (util.fn \in {"mp_append_escaped_string",
                  "mp_append_escaped_string_noalloc"}
        /\ util.done /\ ~util.ret) =>
        util.dst.data = util.dst0.data /\ util.src = util.src0

(* C21 as amended.  Whenever one of the two functions returns false, *src  *)
(* is exactly as before the call, and *dst holds its prior content         *)
(* followed by the text decoded before the escape that failed: what a      *)
(* successful call on the input in front of that backslash appends.        *)
C21_FailureKeepsSrc ==
    (util.fn \in {"mp_append_escaped_string",
                  "mp_append_escaped_string_noalloc"}
        /\ util.done /\ ~util.ret) =>
        LET n0 == Len(util.dst0.data)
            in == util.src0.data
            appended == SubSeq(util.dst.data, n0 + 1, Len(util.dst.data))
        IN  /\ util.src = util.src0
            /\ Len(util.dst.data) >= n0
            /\ SubSeq(util.dst.data, 1, n0) = util.dst0.data
            /\ \E k \in 0 .. Len(in) - 1 :
                   /\ in[k + 1] = 92
                   /\ LET front == mp_append_escaped_string_noalloc(
                                       [start |-> TallocPtr, data |-> <<>>],
                                       [util.src0 EXCEPT
                                           !.data = SubSeq(in, 1, k)])
                      IN  /\ front.ret
                          /\ front.src.data = <<>>
                          /\ front.dst.data = appended

(* A literal of a plain character and an unknown escape was rejected with  *)
(* the plain character appended to the text *dst held.                     *)
C21_Witness ==
    /\ util.fn = "mp_append_escaped_string"
    /\ util.done
    /\ ~util.ret
    /\ util.pieces = <<<<"p">>, <<"\\", "g">>>>
    /\ util.dst0.data = <<112, 52>>
    /\ util.dst.data = <<112, 52, 112>>
    /\ util.src = util.src0

----------------------------------------------------------------------------
(* C22 as stated.  When one of the two functions returns true, *src is     *)
(* either empty or starts with the terminating '"', the consumed part of   *)
(* the input is exactly the input up to the first '"' that is not part of  *)
(* an escape (or the whole input if there is none), and a '"' produced by  *)
(* the escape backslash-quote never terminates the literal.  An escape is  *)
(* a backslash with one of the nine escape characters, with x and two hex  *)
(* digits, or with u and four hex digits.                                  *)
C22_ConsumedUpToQuote ==
    (util.fn \in {"mp_append_escaped_string",
                  "mp_append_escaped_string_noalloc"}
        /\ util.done /\ util.ret) =>
        LET in == util.src0.data
            IsHex(b) == b \in (48 .. 57) \cup (65 .. 70) \cup (97 .. 102)
            HexRun(i, n) ==
                i + n <= Len(in) /\ \A j \in i + 1 .. i + n : IsHex(in[j])
            EscapeLen(i) ==
                IF i + 1 > Len(in) THEN 1
                ELSE IF in[i + 1] \in {34, 92, 98, 102, 110, 114, 116, 101, 39}
                THEN 2
                ELSE IF in[i + 1] = 120 /\ HexRun(i + 1, 2) THEN 4
                ELSE IF in[i + 1] = 117 /\ HexRun(i + 1, 4) THEN 6
                ELSE 1
            RECURSIVE FirstQuote(_)
            FirstQuote(i) ==
                IF i > Len(in) THEN Len(in) + 1
                ELSE IF in[i] = 34 THEN i
                ELSE IF in[i] = 92 THEN FirstQuote(i + EscapeLen(i))
                ELSE FirstQuote(i + 1)
        IN  /\ util.src.data = <<>> \/ util.src.data[1] = 34
            /\ util.src.data = SubSeq(in, FirstQuote(1), Len(in))
            /\ util.src.start = [mem |-> "src", off |-> FirstQuote(1) - 1]

----------------------------------------------------------------------------
(* C23 as stated.  mp_append_escaped_string guarantees a copy: after it    *)
(* returns true, dst->start is non-NULL allocated memory and never points  *)
(* into the source buffer, for every input, including a literal without    *)
(* any escape appended to a *dst whose start was NULL on entry, and an     *)
(* empty literal.                                                          *)
C23_GuaranteeCopy ==
    (util.fn = "mp_append_escaped_string" /\ util.done /\ util.ret) =>
        util.dst.start = TallocPtr

----------------------------------------------------------------------------
(* C24.  After every xdg configure event, window.state.fullscreen is true  *)
(* if and only if the event's state list contains FULLSCREEN, regardless   *)
(* of its value before the event, and the configure is acknowledged        *)
(* exactly once with the serial carried by that event; a configure whose   *)
(* width or height is not positive schedules no resize (pending events,    *)
(* vo->dwidth/dheight and the scheduled size stay unchanged).              *)
C24_ConfigureState ==
    [][hist'.ev # hist.ev =>
          /\ window'.fullscreen = hist'.ev.fs
          /\ hist'.ev.acks = <<hist'.ev.serial>>
          /\ (hist'.ev.width <= 0 \/ hist'.ev.height <= 0) =>
                 /\ window'.events = window.events
                 /\ vo'.dwidth = vo.dwidth /\ vo'.dheight = vo.dheight
                 /\ window'.sh_width = window.sh_width
                 /\ window'.sh_height = window.sh_height]_vars

(* A configure event without FULLSCREEN in its state list and with width   *)
(* zero was handled on a fullscreen window while a resize was pending.     *)
C24_Witness ==
    /\ hist.ev.serial = 2
    /\ hist.ev.acks = <<2>>
    /\ ~hist.ev.fs
    /\ hist.ev.width = 0
    /\ hist.last = "unfullscreen"
    /\ ~window.fullscreen
    /\ "VO_EVENT_RESIZE" \in window.events

----------------------------------------------------------------------------
(* C25.  Every left-button press that starts an interactive window move    *)
(* (left press for which the dragging test is false) is followed by the    *)
(* submission of a left-button-up key event (MP_MOUSE_BTN0 with            *)
(* MP_KEY_STATE_UP) no later than the next pointer-enter event; the        *)
(* button-down key event is submitted before the move request is issued;   *)
(* and a move is requested for no other button or state.                   *)
C25_ReleaseOnEnter ==
    [][hist'.ptr # hist.ptr =>
          LET e == hist'.ptr
              moves == {i \in 1 .. Len(e.out) :
                            e.out[i].call = "xdg_surface_move"}
          IN  /\ (e.kind = "enter" /\ hist.ptr.owed) =>
                     \E i \in 1 .. Len(e.out) :
                         e.out[i] = [call |-> "mp_input_put_key",
                                     key |-> "MP_MOUSE_BTN0", plus |-> 0,
                                     state |-> "MP_KEY_STATE_UP"]
              /\ e.kind = "enter" => ~e.owed
              /\ moves # {} =>
                     /\ e.kind = "button"
                     /\ e.button = BTN_LEFT
                     /\ e.state = "pressed"
                     /\ ~e.dragging
                     /\ \A i \in moves :
                            \E j \in 1 .. i - 1 :
                                e.out[j] = [call |-> "mp_input_put_key",
                                            key |-> "MP_MOUSE_BTN0",
                                            plus |-> 0,
                                            state |-> "MP_KEY_STATE_DOWN"]]_vars

(* The pointer entered after a left press had started a move and no        *)
(* release had been seen: the enter event released the button.             *)
C25_Witness ==
    /\ hist.ptr.kind = "enter"
    /\ hist.ptr.before
    /\ ~hist.ptr.owed
    /\ hist.ptr.out = <<MouseKey(0, "MP_KEY_STATE_UP")>>
    /\ cursor.pointer

----------------------------------------------------------------------------
----------------------------------------------------------------------------
(* C27.  For every sequence of seat capability events, after each event a  *)
(* keyboard object exists if and only if the announced capabilities        *)
(* include keyboard and a pointer object exists if and only if they        *)
(* include pointer; an object is never created while one already exists    *)
(* and is never destroyed twice, vo_wayland_uninit included.               *)
C27_SeatCapabilities ==
    /\ hist.caps # caps_none =>
           /\ input.keyboard <=> "keyboard" \in hist.caps
           /\ input.pointer <=> "pointer" \in hist.caps
    /\ heap.res["keyboard"] # "invalid"
    /\ heap.res["pointer"] # "invalid"
    /\ pc = "ready" =>
           /\ input.keyboard <=> heap.res["keyboard"] = "live"
           /\ input.pointer <=> heap.res["pointer"] = "live"
    /\ pc = "torn_down" =>
           /\ heap.res["keyboard"] # "live"
           /\ heap.res["pointer"] # "live"

(* The keyboard had been taken away by a seat event that left the pointer, *)
(* and the backend was torn down: each object was destroyed once.          *)
C27_Witness ==
    /\ pc = "torn_down"
    /\ hist.caps = {"pointer"}
    /\ input.pointer
    /\ ~input.keyboard
    /\ heap.res["keyboard"] = "destroyed"
    /\ heap.res["pointer"] = "destroyed"

(* C28: whatever the order of the globals of the registry roundtrip, no    *)
(* request is issued on an unbound object: once the wl_seat global has     *)
(* been handled (input.seat) the data-device manager the data device was   *)
(* requested from is bound (input.devman), and a process that died in      *)
(* create_window (after create_display returned, before create_cursor      *)
(* made its surface) did not die on an unbound compositor.                 *)
C28_NoRequestOnUnbound ==
    /\ input.seat => input.devman
    /\ (pc = "crashed" /\ display.display_fd = "open" /\ ~cursor.surface)
           => display.compositor

(* C29: whenever a pointer is on the surface and the player has requested  *)
(* a cursor visibility, the cursor shown is the one cursor.visible         *)
(* records: the default cursor if it is set, none if it is clear.  This    *)
(* covers a hide request in the initial state or after a pointer enter,    *)
(* and pointer leave and enter events after a hide request.                *)
C29_CursorAgreesWithVisible ==
    (/\ Running
     /\ ctl.request = "VOCTRL_SET_CURSOR_VISIBILITY"
     /\ hist.cur.on
     /\ ~hist.cur.uaf)
        => cursor.image = IF cursor.visible THEN "left_ptr" ELSE "hidden"

(* C30: the pointer of cursor requests is live: cursor.pointer is NULL or  *)
(* refers to a pointer that has not been destroyed, and no set-cursor      *)
(* request has been issued on a destroyed pointer.                         *)
C30_CursorPointerLive ==
    /\ (pc = "ready" /\ cursor.pointer) => ~hist.cur.stale
    /\ ~hist.cur.uaf

(* C31: once the error path of the event check has closed the display      *)
(* socket descriptor it is not used again: no dispatch, flush or poll is   *)
(* performed on it in the rest of that check or in a later one, and the    *)
(* disconnect of vo_wayland_uninit does not close it a second time.        *)
C31_ClosedFdNotReused == srv.after_close = {}

(* C32: protocol object lifetimes are scoped inside the connection: when   *)
(* vo_wayland_uninit has run, no protocol object was destroyed after       *)
(* wl_display_disconnect was called on the display, and every object that  *)
(* was created has been destroyed exactly once.                            *)
C32_LifetimesInsideConnection ==
    pc = "torn_down" =>
        /\ \A i \in 1 .. Len(heap.log), j \in 1 .. Len(heap.log) :
               (heap.log[i] = "display" /\ i < j) =>
                   heap.log[j] \notin
                       Resources \ {"xkb_context", "cursor_theme"}
        /\ \A r \in Resources : heap.res[r] \in {"none", "destroyed"}
====
